---- MODULE Spec2Model ----
(***************************************************************************)
(* Verification model of the OpenAlex research pipeline:                   *)
(*   codes/agent_openalex.py     (cache, cached service, key generator,    *)
(*                                citation graph builder)                  *)
(*   codes/project_repository.py (project manifest and run files)          *)
(*                                                                         *)
(* Text is modelled as a sequence of one-character strings, so that the    *)
(* regular-expression and strip/split steps of the code are computed and   *)
(* not assumed.  A Python dict is a function whose DOMAIN is its key set;  *)
(* Optional[x] is the empty sequence (None) or a one-element sequence.     *)
(***************************************************************************)
EXTENDS FiniteSets, Integers, Sequences, TLC

VARIABLES
    file,       \* the cache file on disk
    data,       \* JsonFileCache._data
    dirty,      \* JsonFileCache._dirty
    last,       \* the last CachedOpenAlexService call: arguments, cache before, client calls, outcome
    manifest,   \* <root>/<slug>/project.json
    runFiles,   \* <root>/<slug>/runs/: file name -> run payload
    now,        \* the clock read by _utc_now_iso (seconds)
    saved,      \* seed id -> the path the last successful save_run of that seed returned
    firstTheme, \* the theme of the first successful save_run, once there is one
    rlast,      \* the last save_run call: arguments and outcome
    kInput,     \* the works handed to GraphKeyGenerator.assign_keys
    kOut,       \* its outcome: the returned mapping and, per iteration, base and key
    gInput,     \* seed, decisions and keys handed to CitationGraphBuilder.build
    gOut,       \* the graph it returned
    call,       \* the operation under study and its arguments (and what its collaborators answer)
    ret,        \* what that operation returned
    proc,       \* the locals of an operation studied step by step, while it runs
    dbFile,     \* the PaperDatabase JSON file
    dlast       \* the last PaperDatabase call: arguments and outcome

cacheVars == <<file, data, dirty, last>>
repoVars == <<manifest, runFiles, now, saved, firstTheme, rlast>>

keyVars == <<kInput, kOut>>
graphVars == <<gInput, gOut>>
callVars == <<call, ret, proc>>
dbVars == <<dbFile, dlast>>

vars == <<file, data, dirty, last, manifest, runFiles, now, saved, firstTheme, rlast,
          kInput, kOut, gInput, gOut, call, ret, proc, dbFile, dlast>>

-----------------------------------------------------------------------------
(* Generic helpers for dicts and lists                                     *)

EmptyDict == [k \in {} |-> {}]

DictSet(d, k, v) == [x \in (DOMAIN d) \cup {k} |-> IF x = k THEN v ELSE d[x]]

Range(s) == {s[i] : i \in DOMAIN s}

SeqsUpTo(S, n) == UNION {[1..m -> S] : m \in 0..n}

NoneValue == <<>>
Some(x) == <<x>>

-----------------------------------------------------------------------------
(* Work (dataclass) and its dict form                                      *)

Work(id, title, year, authors) ==
    [openalex_id |-> id, title |-> title, publication_year |-> year, authors |-> authors,
     referenced_works |-> <<>>, abstract |-> NoneValue, primary_topic |-> NoneValue]

to_dict(w) ==
    [k \in {"openalex_id", "title", "publication_year", "authors",
            "referenced_works", "abstract", "primary_topic"} |-> w[k]]

from_dict(payload) ==
    [openalex_id |-> payload["openalex_id"],
     title |-> IF "title" \in DOMAIN payload THEN payload["title"] ELSE "",
     publication_year |-> IF "publication_year" \in DOMAIN payload
                          THEN payload["publication_year"] ELSE NoneValue,
     authors |-> IF "authors" \in DOMAIN payload THEN payload["authors"] ELSE <<>>,
     referenced_works |-> IF "referenced_works" \in DOMAIN payload
                          THEN payload["referenced_works"] ELSE <<>>,
     abstract |-> IF "abstract" \in DOMAIN payload THEN payload["abstract"] ELSE NoneValue,
     primary_topic |-> IF "primary_topic" \in DOMAIN payload
                       THEN payload["primary_topic"] ELSE NoneValue]

-----------------------------------------------------------------------------
(* Bounds and input pools of the cache model                               *)

MaxList == 2        \* longest relation id-list / client answer

CacheIds == {<<"A">>, <<"B">>}      \* work identifiers known to the remote API
SeedArgs == {<<"A">>}               \* identifiers passed to get_references / get_citations
Titles == {"t1", "t2"}              \* two revisions of a work's metadata

RemoteWork(id, t) == Work(id, t, Some(2020), <<>>)

\* What the remote API holds at one moment: one record per identifier.
Snapshots == [CacheIds -> Titles]

\* Lists of works the client can return for a relation.
ClientAnswers ==
    {[i \in DOMAIN ids |-> RemoteWork(ids[i], snap[ids[i]])] :
        ids \in SeqsUpTo(CacheIds, MaxList), snap \in Snapshots}

IdLists == SeqsUpTo(CacheIds, MaxList)

WorkBuckets ==
    UNION {[S -> {to_dict(RemoteWork(i, t)) : i \in CacheIds, t \in Titles}] : S \in SUBSET CacheIds}

RelationBuckets == UNION {[S -> IdLists] : S \in SUBSET SeedArgs}

\* Cache documents a cache file can hold.  A work filed under an identifier
\* carries that identifier; an id-list may name works that are not filed
\* (a partially written cache).
CacheDocs ==
    {[works |-> w, references |-> r, citations |-> c] :
        w \in {b \in WorkBuckets : \A i \in DOMAIN b : b[i]["openalex_id"] = i},
        r \in RelationBuckets, c \in RelationBuckets}

-----------------------------------------------------------------------------
(* JsonFileCache                                                            *)

DefaultData == [works |-> EmptyDict, references |-> EmptyDict, citations |-> EmptyDict]

NoFile == [exists |-> FALSE]
FileOf(doc) == [exists |-> TRUE, doc |-> doc]

NotLoaded == [loaded |-> FALSE]
Loaded(doc) == [loaded |-> TRUE, doc |-> doc]

\* _load: the document the cache works on (read from the file at most once).
Load(d, f) == IF d.loaded THEN d.doc ELSE IF f.exists THEN f.doc ELSE DefaultData

get_work(doc, work_id) ==
    IF work_id \in DOMAIN doc.works THEN Some(from_dict(doc.works[work_id])) ELSE NoneValue

store_work(doc, work) ==
    [doc EXCEPT !.works = DictSet(doc.works, work.openalex_id, to_dict(work))]

\* get_reference_ids / get_citation_ids: the stored list, [] when there is none.
get_relation_ids(doc, relation, seed_id) ==
    IF seed_id \in DOMAIN doc[relation] THEN doc[relation][seed_id] ELSE <<>>

\* set_reference_ids / set_citation_ids
set_relation_ids(doc, relation, seed_id, work_ids) ==
    [doc EXCEPT ![relation] = DictSet(doc[relation], seed_id, work_ids)]

\* a commit that rewrites the file whether or not anything changed
commit_file_always(doc, isDirty, f) == FileOf(doc)

\* commit: write the whole document when dirty, then clear the flag.
commit_file(doc, isDirty, f) == IF isDirty THEN FileOf(doc) ELSE f

-----------------------------------------------------------------------------
(* CachedOpenAlexService                                                    *)

RECURSIVE collect_from_cache(_, _)
collect_from_cache(doc, work_ids) ==
    IF work_ids = <<>> THEN <<>>
    ELSE LET cached == get_work(doc, Head(work_ids))
         IN  (IF cached # NoneValue THEN cached ELSE <<>>) \o collect_from_cache(doc, Tail(work_ids))

RECURSIVE store_all(_, _)
store_all(doc, works) ==
    IF works = <<>> THEN doc ELSE store_all(store_work(doc, Head(works)), Tail(works))

\* A persist step that records the id-list without filing the works.
persist_relation_ids_only(doc, work_id, works, relation) ==
    set_relation_ids(doc, relation, work_id, [i \in DOMAIN works |-> works[i].openalex_id])

\* _persist_relation, up to the commit
persist_relation(doc, work_id, works, relation) ==
    set_relation_ids(store_all(doc, works), relation, work_id,
                     [i \in DOMAIN works |-> works[i].openalex_id])

Returned(v) == [raised |-> FALSE, value |-> v]
Raised == [raised |-> TRUE]

\* Does get_references / get_citations answer from the cache?
CacheHit(doc, relation, work_id) ==
    LET cached_ids == get_relation_ids(doc, relation, work_id)
    IN  /\ cached_ids # <<>>
        /\ Len(collect_from_cache(doc, cached_ids)) = Len(cached_ids)

GetSeedHit(work_id) ==
    LET doc == Load(data, file)
    IN  /\ get_work(doc, work_id) # NoneValue
        /\ data' = Loaded(doc)
        /\ last' = [op |-> "get_seed", arg |-> work_id, pre |-> doc, calls |-> 0,
                    client |-> "none", out |-> Returned(get_work(doc, work_id)[1])]
        /\ UNCHANGED <<file, dirty>>
        /\ UNCHANGED <<repoVars, keyVars, graphVars, callVars, dbVars>>

GetSeedFetch(work_id) ==
    LET doc == Load(data, file)
    IN  /\ get_work(doc, work_id) = NoneValue
        /\ \E id \in CacheIds, t \in Titles :
              LET work == RemoteWork(id, t)
                  stored == store_work(doc, work)
              IN  /\ data' = Loaded(stored)
                  /\ file' = commit_file(stored, TRUE, file)
                  /\ dirty' = FALSE
                  /\ UNCHANGED <<repoVars, keyVars, graphVars, callVars, dbVars>>
                  /\ last' = [op |-> "get_seed", arg |-> work_id, pre |-> doc, calls |-> 1,
                              client |-> "answered", out |-> Returned(work)]

GetSeedFail(work_id) ==
    LET doc == Load(data, file)
    IN  /\ get_work(doc, work_id) = NoneValue
        /\ data' = Loaded(doc)
        /\ last' = [op |-> "get_seed", arg |-> work_id, pre |-> doc, calls |-> 1,
                    client |-> "failed", out |-> Raised]
        /\ UNCHANGED <<file, dirty>>
        /\ UNCHANGED <<repoVars, keyVars, graphVars, callVars, dbVars>>

OpName(relation) == IF relation = "references" THEN "get_references" ELSE "get_citations"

GetRelationHit(relation, work_id) ==
    LET doc == Load(data, file)
    IN  /\ CacheHit(doc, relation, work_id)
        /\ data' = Loaded(doc)
        /\ last' = [op |-> OpName(relation), arg |-> work_id, pre |-> doc, calls |-> 0,
                    client |-> "none",
                    out |-> Returned(collect_from_cache(doc, get_relation_ids(doc, relation, work_id)))]
        /\ UNCHANGED <<file, dirty>>
        /\ UNCHANGED <<repoVars, keyVars, graphVars, callVars, dbVars>>

GetRelationFetch(relation, work_id) ==
    LET doc == Load(data, file)
    IN  /\ ~CacheHit(doc, relation, work_id)
        /\ \E works \in ClientAnswers :
              LET stored == persist_relation(doc, work_id, works, relation)
              IN  /\ data' = Loaded(stored)
                  /\ file' = commit_file(stored, TRUE, file)
                  /\ dirty' = FALSE
                  /\ UNCHANGED <<repoVars, keyVars, graphVars, callVars, dbVars>>
                  /\ last' = [op |-> OpName(relation), arg |-> work_id, pre |-> doc, calls |-> 1,
                              client |-> "answered", out |-> Returned(works)]

GetRelationFail(relation, work_id) ==
    LET doc == Load(data, file)
    IN  /\ ~CacheHit(doc, relation, work_id)
        /\ data' = Loaded(doc)
        /\ last' = [op |-> OpName(relation), arg |-> work_id, pre |-> doc, calls |-> 1,
                    client |-> "failed", out |-> Raised]
        /\ UNCHANGED <<file, dirty>>
        /\ UNCHANGED <<repoVars, keyVars, graphVars, callVars, dbVars>>

get_seed == \E work_id \in CacheIds : GetSeedHit(work_id) \/ GetSeedFetch(work_id) \/ GetSeedFail(work_id)

get_references ==
    \E work_id \in SeedArgs :
        \/ GetRelationHit("references", work_id)
        \/ GetRelationFetch("references", work_id)
        \/ GetRelationFail("references", work_id)

get_citations ==
    \E work_id \in SeedArgs :
        \/ GetRelationHit("citations", work_id)
        \/ GetRelationFetch("citations", work_id)
        \/ GetRelationFail("citations", work_id)

NoCall == [op |-> "none", arg |-> <<>>, pre |-> DefaultData, calls |-> 0,
           client |-> "none", out |-> Raised]

\* JsonFileCache.commit called by the owner of the cache between two service calls
commit ==
    LET doc == Load(data, file)
    IN  /\ last.op # "commit"
        /\ file' = commit_file(doc, dirty, file)
        /\ data' = IF dirty THEN Loaded(doc) ELSE data
        /\ dirty' = FALSE
        /\ last' = [op |-> "commit", arg |-> <<>>, pre |-> doc, calls |-> 0,
                    client |-> "none", out |-> Returned(NoneValue)]
        /\ UNCHANGED <<repoVars, keyVars, graphVars, callVars, dbVars>>



-----------------------------------------------------------------------------
(* Text helpers (re.sub over a character class, str.strip, str.lower)      *)

LowerLetters == <<"a","b","c","d","e","f","g","h","i","j","k","l","m",
                  "n","o","p","q","r","s","t","u","v","w","x","y","z">>
UpperLetters == <<"A","B","C","D","E","F","G","H","I","J","K","L","M",
                  "N","O","P","Q","R","S","T","U","V","W","X","Y","Z">>
DigitChars == <<"0","1","2","3","4","5","6","7","8","9">>

AsciiLetters == Range(LowerLetters) \cup Range(UpperLetters)
AsciiAlnum == AsciiLetters \cup Range(DigitChars)

Str(s) == s     \* a text literal written as a tuple of characters

RECURSIVE SubRuns(_, _, _, _)
\* re.sub("[^Keep]+", rep, s): every maximal run of characters outside Keep becomes rep
SubRuns(s, Keep, rep, inRun) ==
    IF s = <<>> THEN <<>>
    ELSE IF Head(s) \in Keep THEN <<Head(s)>> \o SubRuns(Tail(s), Keep, rep, FALSE)
    ELSE (IF inRun THEN <<>> ELSE rep) \o SubRuns(Tail(s), Keep, rep, TRUE)

RECURSIVE LStrip(_, _)
LStrip(s, Chars) == IF s # <<>> /\ Head(s) \in Chars THEN LStrip(Tail(s), Chars) ELSE s

RECURSIVE RStrip(_, _)
RStrip(s, Chars) ==
    IF s # <<>> /\ s[Len(s)] \in Chars THEN RStrip(SubSeq(s, 1, Len(s) - 1), Chars) ELSE s

Strip(s, Chars) == RStrip(LStrip(s, Chars), Chars)

LowerChar(c) ==
    IF c \in Range(UpperLetters)
    THEN LowerLetters[CHOOSE i \in DOMAIN UpperLetters : UpperLetters[i] = c]
    ELSE c

UpperChar(c) ==
    IF c \in Range(LowerLetters)
    THEN UpperLetters[CHOOSE i \in DOMAIN LowerLetters : LowerLetters[i] = c]
    ELSE c

\* unicodedata.normalize("NFKD", c) for the characters of the pools: an
\* accented letter decomposes into its base letter and a combining mark.
CombiningAcute == "COMBINING_ACUTE"
Nfkd(c) == IF c = "é" THEN <<"e", CombiningAcute>> ELSE <<c>>

IsAscii(c) == c \in AsciiAlnum \cup {" ", "-", "_", ".", "/", ":", ","}

RECURSIVE NfkdText(_)
NfkdText(s) == IF s = <<>> THEN <<>> ELSE Nfkd(Head(s)) \o NfkdText(Tail(s))

-----------------------------------------------------------------------------
(* Graph records                                                            *)

GraphNode(work_id, title, role, verdict) ==
    [work_id |-> work_id, title |-> title, role |-> role, verdict |-> verdict]

WorkDecision(work, verdict, justification, relation, graph_key) ==
    [work |-> work, verdict |-> verdict, justification |-> justification,
     relation |-> relation, graph_key |-> graph_key]

CitationGraph(seed_key, nodes, edges) == [seed_key |-> seed_key, nodes |-> nodes, edges |-> edges]

OpenAlexResearchResult(seed, theme, accepted, rejected, graph) ==
    [seed |-> seed, theme |-> theme, accepted |-> accepted, rejected |-> rejected, graph |-> graph]

-----------------------------------------------------------------------------
(* ProjectRepository                                                        *)

MaxClock == 1       \* last second the clock reaches

ProjectNames == {Str(<<"M", "y", " ", "P">>)}
RunSeedIds == {Str(<<"a">>), Str(<<"b">>), Str(<<"a", "/">>)}
Themes == {"", "ai", "ml"}
Verdicts == {"accepted", "rejected"}

\* The results the repository tests save (_make_result).
MakeResult(seed_id, theme, verdict, relation) ==
    LET seed_work == Work(seed_id, "Seed", Some(2024), <<Str(<<"A", "d", "a">>)>>)
        related_work == Work(seed_id \o Str(<<"-", "R">>), "Reference paper", Some(2020),
                             <<Str(<<"H", "o", "p">>)>>)
        seed_key == Str(<<"S", "-">>) \o seed_id
        node_key == seed_id \o Str(<<"_", "1">>)
        decision == WorkDecision(related_work, verdict, "Mock justification", relation, node_key)
        graph == CitationGraph(seed_key,
                    (seed_key :> GraphNode(seed_id, "Seed", "seed", "seed"))
                      @@ (node_key :> GraphNode(related_work.openalex_id, "Reference paper",
                                                relation, verdict)),
                    <<(<<seed_key, node_key>>)>>)
    IN  OpenAlexResearchResult(seed_work, theme,
            IF verdict = "accepted" THEN <<decision>> ELSE <<>>,
            IF verdict = "rejected" THEN <<decision>> ELSE <<>>,
            graph)

RunResults == {MakeResult(s, t, v, "reference") : s \in RunSeedIds, t \in Themes, v \in Verdicts}

\* ProjectRepository.slugify
slugify(name) ==
    LET ascii_text == SelectSeq(NfkdText(name), IsAscii)
        slug == Strip(SubRuns(ascii_text, AsciiAlnum, <<"-">>, FALSE), {"-"})
        lowered == [i \in DOMAIN slug |-> LowerChar(slug[i])]
    IN  IF lowered = <<>> THEN Str(<<"p","r","o","j","e","c","t">>) ELSE lowered

\* _sanitize_filename
sanitize_filename(identifier) ==
    LET safe == SubRuns(identifier, AsciiAlnum \cup {"_", ".", "-"}, <<"_">>, FALSE)
        stripped == Strip(safe, {"_", "."})
    IN  IF stripped = <<>> THEN Str(<<"o","p","e","n","a","l","e","x","_","r","u","n">>)
        ELSE stripped

JsonSuffix == Str(<<".", "j", "s", "o", "n">>)
RunsPrefix == Str(<<"r", "u", "n", "s", "/">>)

\* A run file name that also depends on the outcome of the run.
run_filename_per_outcome(result) ==
    sanitize_filename(result.seed.openalex_id)
        \o (IF result.accepted = <<>> THEN Str(<<"-", "r">>) ELSE Str(<<"-", "a">>)) \o JsonSuffix

\* run_filename = _sanitize_filename(seed id) + ".json"
run_filename(result) == sanitize_filename(result.seed.openalex_id) \o JsonSuffix

\* OpenAlexResearchResult.to_dict: the full result serialization.
result_to_dict(result) ==
    [seed |-> to_dict(result.seed), theme |-> result.theme,
     accepted |-> result.accepted, rejected |-> result.rejected, graph |-> result.graph]

NoManifest == [exists |-> FALSE]
ManifestOf(doc) == [exists |-> TRUE, doc |-> doc]

\* the manifest save_run starts from when project.json does not exist
new_manifest(project, result) ==
    [name |-> project, slug |-> slugify(project), theme |-> result.theme, runs |-> EmptyDict]

\* the theme check of save_run on an existing manifest
theme_mismatch(m, result) == m.theme # "" /\ m.theme # result.theme

run_payload(project, result, generated_at) ==
    result_to_dict(result) @@
        [project |-> [name |-> project, slug |-> slugify(project)], generated_at |-> generated_at]

run_entry(result, updated_at) ==
    [seed_id |-> result.seed.openalex_id, run_file |-> RunsPrefix \o run_filename(result),
     updated_at |-> updated_at]

\* A manifest update that keeps only the entry of the run just saved.
with_run_only(m, result, updated_at) ==
    [m EXCEPT !.runs = (result.seed.openalex_id :> run_entry(result, updated_at))]

\* manifest["runs"][seed id] = entry
with_run(m, result, updated_at) ==
    [m EXCEPT !.runs = DictSet(m.runs, result.seed.openalex_id, run_entry(result, updated_at))]

RunPath(project, result) == <<slugify(project), Str(<<"r","u","n","s">>), run_filename(result)>>
PathName(path) == path[Len(path)]

SaveRunRejected(project, result) ==
    /\ manifest.exists
    /\ theme_mismatch(manifest.doc, result)
    /\ rlast' = [op |-> "save_run", project |-> project, result |-> result, raised |-> TRUE,
                 pre |-> [manifest |-> manifest, fileNames |-> DOMAIN runFiles],
                 savedBefore |-> result.seed.openalex_id \in DOMAIN saved,
                 path |-> <<>>]
    /\ UNCHANGED <<manifest, runFiles, now, saved, firstTheme>>

SaveRunWritten(project, result) ==
    LET start == IF manifest.exists THEN manifest.doc ELSE new_manifest(project, result)
    IN  /\ manifest.exists => ~theme_mismatch(manifest.doc, result)
        /\ \E generated_at \in {now} :
           \E updated_at \in {t \in {now, now + 1} : t <= MaxClock} :
              /\ runFiles' = DictSet(runFiles, run_filename(result),
                                     run_payload(project, result, generated_at))
              /\ manifest' = ManifestOf(with_run(start, result, updated_at))
              /\ now' = updated_at
              /\ saved' = DictSet(saved, result.seed.openalex_id, RunPath(project, result))
              /\ firstTheme' = IF firstTheme = NoneValue THEN Some(result.theme) ELSE firstTheme
              /\ rlast' = [op |-> "save_run", project |-> project, result |-> result,
                           raised |-> FALSE,
                           pre |-> [manifest |-> manifest, fileNames |-> DOMAIN runFiles],
                           savedBefore |-> result.seed.openalex_id \in DOMAIN saved,
                           path |-> RunPath(project, result)]

save_run ==
    \E project \in ProjectNames, result \in RunResults :
        SaveRunRejected(project, result) \/ SaveRunWritten(project, result)

\* the clock advances between calls
Tick ==
    /\ now < MaxClock
    /\ now' = now + 1
    /\ UNCHANGED <<manifest, runFiles, saved, firstTheme, rlast>>

NoSave == [op |-> "none"]

InitRepo ==
    /\ manifest = NoManifest
    /\ runFiles = EmptyDict
    /\ now = 0
    /\ saved = EmptyDict
    /\ firstTheme = NoneValue
    /\ rlast = NoSave

-----------------------------------------------------------------------------
(* GraphKeyGenerator                                                        *)

MaxWorks == 3       \* longest list of works drawn from the pool
LongLen == 29       \* length of the list of works that all share one base key

IsAlpha(c) == c \in AsciiLetters \cup {"é"}       \* str.isalpha

RECURSIVE Digits(_)
\* str(n) for n >= 0
Digits(n) == IF n < 10 THEN <<DigitChars[n + 1]>> ELSE Digits(n \div 10) \o <<DigitChars[(n % 10) + 1]>>

RECURSIVE LastSegment(_)
\* text.split()[-1] of a text without leading or trailing blanks
LastSegment(s) ==
    IF s = <<>> THEN <<>>
    ELSE IF s[Len(s)] = " " THEN <<>>
    ELSE LastSegment(SubSeq(s, 1, Len(s) - 1)) \o <<s[Len(s)]>>

\* the surname, taken from the last entry of the author list
last_name_from_last_author(authors) ==
    IF authors = <<>> THEN <<>>
    ELSE LET name == Strip(authors[Len(authors)], {" "})
             ascii_name == SelectSeq(NfkdText(LastSegment(name)), IsAlpha)
         IN  IF name = <<>> \/ ascii_name = <<>> THEN <<>>
             ELSE <<UpperChar(Head(ascii_name))>> \o Tail(ascii_name)

\* _last_name_from_authors
last_name_from_authors(authors) ==
    IF authors = <<>> THEN <<>>
    ELSE LET first_author == Strip(authors[1], {" "})
             last_segment == LastSegment(first_author)
             normalized == NfkdText(last_segment)
             ascii_name == SelectSeq(normalized, IsAlpha)
         IN  IF first_author = <<>> \/ ascii_name = <<>> THEN <<>>
             ELSE <<UpperChar(Head(ascii_name))>> \o Tail(ascii_name)

IsAlnumChar(c) == c \in AsciiAlnum

\* _base_key
base_key(work) ==
    LET last_name == last_name_from_authors(work.authors)
        year == IF work.publication_year # NoneValue
                THEN Digits(work.publication_year[1]) ELSE Str(<<"0", "0", "0", "0">>)
        sanitized == SelectSeq(work.openalex_id, IsAlnumChar)
    IN  IF last_name # <<>> THEN last_name \o year
        ELSE IF sanitized # <<>> THEN sanitized ELSE Str(<<"W", "o", "r", "k">>)

RECURSIVE suffix_zero_based(_)
\* plain base-26 digits of value, a standing for 0 (the loop without "number -= 1")
suffix_zero_based(value) ==
    IF value <= 0 THEN <<>>
    ELSE suffix_zero_based(value \div 26) \o <<LowerLetters[(value % 26) + 1]>>

RECURSIVE suffix(_)
\* _suffix: letters are produced least significant first and then reversed
suffix(value) ==
    IF value <= 0 THEN <<>>
    ELSE LET number == value - 1
         IN  suffix(number \div 26) \o <<LowerLetters[(number % 26) + 1]>>

RECURSIVE assign_loop(_, _, _, _)
\* the loop of assign_keys; trace records base and key of every iteration
assign_loop(works, keys, counts, trace) ==
    IF works = <<>> THEN [keys |-> keys, trace |-> trace]
    ELSE LET work == Head(works)
             base == base_key(work)
             count == IF base \in DOMAIN counts THEN counts[base] ELSE 0
             key == IF count = 0 THEN base ELSE base \o suffix(count)
         IN  assign_loop(Tail(works),
                         DictSet(keys, work.openalex_id, key),
                         DictSet(counts, base, count + 1),
                         Append(trace, [base |-> base, key |-> key]))

assign_keys(works) == assign_loop(works, EmptyDict, EmptyDict, <<>>)

NotRun == [done |-> FALSE]
Done(v) == [done |-> TRUE, value |-> v]

Smith == Str(<<"j", " ", "s", "m">>)
KeyWorkPool ==
    { Work(Str(<<"W", "1">>), "Paper A", Some(2020), <<Smith>>),
      Work(Str(<<"W", "2">>), "Paper B", Some(2020), <<Smith, Str(<<"A", " ", "D", "o">>)>>),
      Work(Str(<<"W", "-", "3">>), "Paper C", NoneValue, <<>>),
      Work(Str(<<"-">>), "Paper D", Some(7), <<Str(<<" ">>), Smith>>),
      Work(Str(<<"W", "5">>), "Paper E", NoneValue, <<Str(<<" ", "é", "-", "o", " ">>)>>),
      Work(Str(<<"W", "6">>), "Paper F", Some(7), <<Str(<<"x", " ", "4", "2">>), Smith>>),
      Work(Str(<<"W", "3">>), "Paper G", NoneValue, <<>>),
      Work(Str(<<"W", "3", "a">>), "Paper H", NoneValue, <<>>) }

\* LongLen works with distinct identifiers and the same author and year.
LongInput == [i \in 1..LongLen |-> Work(Str(<<"L">>) \o Digits(i), "Paper", Some(2020), <<Smith>>)]

KeyInputs == SeqsUpTo(KeyWorkPool, MaxWorks) \cup {LongInput}

assign_keys_call ==
    /\ ~kOut.done
    /\ kOut' = Done(assign_keys(kInput))
    /\ UNCHANGED kInput

KeysIdle == kInput = <<>> /\ kOut = NotRun

-----------------------------------------------------------------------------
(* CitationGraphBuilder                                                     *)

MaxDecisions == 3   \* longest list of decisions

\* the edge of a decision when every edge is drawn from the seed
edge_from_seed(decision, seed_key) == <<seed_key, decision.graph_key>>

\* the edge appended for one decision
edge_of(decision, seed_key) ==
    IF decision.relation = "reference"
    THEN <<seed_key, decision.graph_key>>
    ELSE <<decision.graph_key, seed_key>>

RECURSIVE unique_keep_last(_)
\* deduplication that keeps the last occurrence of each pair
unique_keep_last(edges) ==
    IF edges = <<>> THEN <<>>
    ELSE LET rest == SubSeq(edges, 1, Len(edges) - 1)
             e == edges[Len(edges)]
         IN  unique_keep_last(SelectSeq(rest, LAMBDA x : x # e)) \o <<e>>

RECURSIVE unique_edges(_)
\* list(dict.fromkeys(edges)): first occurrence of every pair, in order
unique_edges(edges) ==
    IF edges = <<>> THEN <<>>
    ELSE <<Head(edges)>> \o unique_edges(SelectSeq(Tail(edges), LAMBDA x : x # Head(edges)))

RECURSIVE node_loop(_, _)
\* nodes[key] = GraphNode(...) for every decision, in order
node_loop(decisions, nodes) ==
    IF decisions = <<>> THEN nodes
    ELSE LET d == Head(decisions)
         IN  node_loop(Tail(decisions),
                       DictSet(nodes, d.graph_key,
                               GraphNode(d.work.openalex_id, d.work.title, d.relation, d.verdict)))

\* CitationGraphBuilder.build
build(seed, decisions, keys) ==
    LET seed_key == keys[seed.openalex_id]
        seed_nodes == (seed_key :> GraphNode(seed.openalex_id, seed.title, "seed", "seed"))
        edges == [i \in DOMAIN decisions |-> edge_of(decisions[i], seed_key)]
    IN  CitationGraph(seed_key, node_loop(decisions, seed_nodes), unique_edges(edges))

GraphSeed == Work(Str(<<"S">>), "Seed", Some(2024), <<>>)
GraphSeedKey == Str(<<"K", "s">>)
GraphWorks ==
    { [work |-> GraphSeed, key |-> GraphSeedKey],
      [work |-> Work(Str(<<"A">>), "Paper A", Some(2020), <<>>), key |-> Str(<<"K", "a">>)],
      [work |-> Work(Str(<<"B">>), "Paper B", Some(2020), <<>>), key |-> Str(<<"K", "b">>)] }

GraphDecisions ==
    {WorkDecision(w.work, v, "because", r, w.key) :
        w \in GraphWorks, v \in Verdicts, r \in {"reference", "citation"}}

GraphInputs ==
    {[seed |-> GraphSeed, decisions |-> ds,
      keys |-> [id \in {w.work.openalex_id : w \in GraphWorks} |->
                    (CHOOSE w \in GraphWorks : w.work.openalex_id = id).key]] :
        ds \in SeqsUpTo(GraphDecisions, MaxDecisions)}

build_call ==
    /\ ~gOut.done
    /\ gOut' = Done(build(gInput.seed, gInput.decisions, gInput.keys))
    /\ UNCHANGED gInput

GraphIdle == gInput = <<>> /\ gOut = NotRun

-----------------------------------------------------------------------------
(* Operations studied call by call: arguments in call, outcome in ret      *)

NoArgs == [op |-> "none"]

NoProc == [pc |-> "none"]

CallIdle == call = NoArgs /\ ret = NotRun /\ proc = NoProc

-----------------------------------------------------------------------------
(* ProjectData.merged_graph                                                 *)

MaxRuns == 2        \* longest list of loaded runs

ProjectData(name, slug, theme, runs, results) ==
    [name |-> name, slug |-> slug, theme |-> theme, runs |-> runs, results |-> results]

RECURSIVE merge_nodes_last_wins(_, _)
\* a node union in which the run loaded last wins on a shared key
merge_nodes_last_wins(graphs, combined_nodes) ==
    IF graphs = <<>> THEN combined_nodes
    ELSE merge_nodes_last_wins(Tail(graphs), Head(graphs).nodes @@ combined_nodes)

RECURSIVE merge_nodes(_, _)
\* combined_nodes.setdefault(node_id, node) over the graphs in order
merge_nodes(graphs, combined_nodes) ==
    IF graphs = <<>> THEN combined_nodes
    ELSE merge_nodes(Tail(graphs), combined_nodes @@ Head(graphs).nodes)

RECURSIVE merge_edges(_, _)
\* append every edge that is not in seen_edges yet
merge_edges(edges, combined_edges) ==
    IF edges = <<>> THEN combined_edges
    ELSE merge_edges(Tail(edges),
                     IF Head(edges) \in Range(combined_edges) THEN combined_edges
                     ELSE Append(combined_edges, Head(edges)))

RECURSIVE all_edges(_)
\* the edges of the graphs, graph after graph
all_edges(graphs) == IF graphs = <<>> THEN <<>> ELSE Head(graphs).edges \o all_edges(Tail(graphs))

\* _merge_graphs
merge_graphs(graphs, seed_key) ==
    CitationGraph(seed_key, merge_nodes(graphs, EmptyDict), merge_edges(all_edges(graphs), <<>>))

\* ProjectData.merged_graph
merged_graph(project) ==
    merge_graphs([i \in DOMAIN project.results |-> project.results[i].graph], project.slug)

\* Runs as the orchestrator composes them: a seed, the decisions on the works
\* related to it, the keys of the key generator and the graph of the builder.
MergeSeeds == {Work(Str(<<"S", "1">>), "Seed 1", Some(2024), <<>>),
               Work(Str(<<"S", "2">>), "Seed 2", Some(2024), <<>>)}
MergeShared == Work(Str(<<"A">>), "Paper A", Some(2020), <<>>)

ComposedRun(seed, theme, decisions) ==
    LET works == <<seed>> \o [i \in DOMAIN decisions |-> decisions[i].work]
        keys == assign_keys(works).keys
        keyed == [i \in DOMAIN decisions |->
                    [decisions[i] EXCEPT !.graph_key = keys[decisions[i].work.openalex_id]]]
    IN  OpenAlexResearchResult(seed, theme,
            SelectSeq(keyed, LAMBDA d : d.verdict = "accepted"),
            SelectSeq(keyed, LAMBDA d : d.verdict = "rejected"),
            build(seed, keyed, keys))

MergeDecisions(seed) ==
    {WorkDecision(w, v, "because", r, <<>>) :
        w \in {seed, MergeShared}, v \in Verdicts, r \in {"reference", "citation"}}

MergeRuns ==
    UNION {{ComposedRun(seed, "ai", ds) : ds \in SeqsUpTo(MergeDecisions(seed), 1)} :
            seed \in MergeSeeds}

MergeInputs(name, results) ==
    [op |-> "merged_graph", project |-> ProjectData(name, slugify(name), "ai", EmptyDict, results)]

merged_graph_call ==
    /\ call.op = "merged_graph"
    /\ ~ret.done
    /\ ret' = Done(merged_graph(call.project))
    /\ UNCHANGED <<call, proc>>

-----------------------------------------------------------------------------
(* PaperDatabase (agents/semantic_scholar/storage.py)                       *)

MaxLogged == 3      \* most runs logged in one database file
MaxPapers == 1      \* most classifications stored
MaxLimit == 4       \* largest limit passed to last_runs

Queries == {"q1", "q2"}

NoDb == [exists |-> FALSE]
DbOf(doc) == [exists |-> TRUE, doc |-> doc]

EmptyDb == [runs |-> <<>>, papers |-> <<>>]

\* _read
db_read(f) == IF f.exists THEN f.doc ELSE EmptyDb

RECURSIVE MaxOf(_)
\* max(...) of a non-empty list of integers
MaxOf(xs) ==
    IF Len(xs) = 1 THEN xs[1]
    ELSE LET m == MaxOf(Tail(xs)) IN IF Head(xs) >= m THEN Head(xs) ELSE m

\* an id taken from the number of stored items
next_id_by_count(items) == Len(items)

\* _next_id
next_id(items) == IF items = <<>> THEN 1 ELSE MaxOf([i \in DOMAIN items |-> items[i].id]) + 1

RECURSIVE InsertDesc(_, _)
\* place x before the first entry with a smaller id (stable for equal ids)
InsertDesc(x, sorted) ==
    IF sorted = <<>> THEN <<x>>
    ELSE IF Head(sorted).id < x.id THEN <<x>> \o sorted
    ELSE <<Head(sorted)>> \o InsertDesc(x, Tail(sorted))

RECURSIVE sorted_desc(_)
\* sorted(runs, key=id, reverse=True)
sorted_desc(runs) ==
    IF runs = <<>> THEN <<>>
    ELSE InsertDesc(runs[Len(runs)], sorted_desc(SubSeq(runs, 1, Len(runs) - 1)))

\* runs[:limit] for limit >= 0
take(runs, limit) == SubSeq(runs, 1, IF limit < Len(runs) THEN limit ELSE Len(runs))

\* the tuple last_runs returns for one entry
run_tuple(entry) == <<entry.id, entry.query, entry.iteration, entry.agent_summary, entry.created_at>>

\* last_runs without the sort: the first entries of the file
first_runs(doc, limit) ==
    LET trimmed == take(doc.runs, limit)
    IN  [i \in DOMAIN trimmed |-> run_tuple(trimmed[i])]

\* last_runs
last_runs(doc, limit) ==
    LET trimmed == take(sorted_desc(doc.runs), limit)
    IN  [i \in DOMAIN trimmed |-> run_tuple(trimmed[i])]

NoDbCall == [op |-> "none", issued |-> <<>>]

log_run ==
    \E query \in Queries, iteration \in 1..2 :
        LET doc == db_read(dbFile)
            run_id == next_id(doc.runs)
            entry == [id |-> run_id, query |-> query, iteration |-> iteration,
                      agent_summary |-> "summary", feedback |-> NoneValue, created_at |-> "t"]
        IN  /\ Len(doc.runs) < MaxLogged
            /\ dbFile' = DbOf([doc EXCEPT !.runs = Append(doc.runs, entry)])
            /\ dlast' = [op |-> "log_run", pre |-> doc, out |-> run_id,
                         issued |-> Append(dlast.issued, run_id)]

store_classification ==
    \E label \in {"partial", "relevant"} :
        LET doc == db_read(dbFile)
            paper_id == next_id(doc.papers)
        IN  /\ doc.runs # <<>>
            /\ Len(doc.papers) < MaxPapers
            /\ \E r \in DOMAIN doc.runs :
                  /\ dbFile' = DbOf([doc EXCEPT !.papers =
                                        Append(doc.papers, [id |-> paper_id, run_id |-> doc.runs[r].id,
                                                            paper_id |-> "p-1", classification |-> label])])
                  /\ dlast' = [op |-> "store_classification", pre |-> doc, out |-> paper_id,
                               issued |-> dlast.issued]

last_runs_call ==
    \E limit \in 0..MaxLimit :
        LET doc == db_read(dbFile)
        IN  /\ dlast' = [op |-> "last_runs", pre |-> doc, limit |-> limit,
                         out |-> last_runs(doc, limit), issued |-> dlast.issued]
            /\ UNCHANGED dbFile

DbIdle == dbFile = NoDb /\ dlast = NoDbCall

\* PaperDatabase(path) on a path that holds no file yet
InitDb == dbFile = DbOf(EmptyDb) /\ dlast = NoDbCall

-----------------------------------------------------------------------------
(* ProjectRepository.load_project                                           *)

MaxSaved == 3       \* most save_run calls behind a project directory

\* OpenAlexResearchResult.from_dict: the result a run payload was written from.
result_from_dict(payload) ==
    OpenAlexResearchResult(from_dict(payload.seed), payload.theme,
                           payload.accepted, payload.rejected, payload.graph)

\* A project directory: project.json, the order of the keys of its "runs"
\* object, and the files under runs/.
NoProjectDir == [manifest |-> NoManifest, order |-> <<>>, files |-> EmptyDict]

\* the directory after one save_run that passed the theme check, at time t
after_save(dir, project, result, t) ==
    LET start == IF dir.manifest.exists THEN dir.manifest.doc ELSE new_manifest(project, result)
        seed_id == result.seed.openalex_id
    IN  [manifest |-> ManifestOf(with_run(start, result, t)),
         order |-> IF seed_id \in Range(dir.order) THEN dir.order ELSE Append(dir.order, seed_id),
         files |-> DictSet(dir.files, run_filename(result), run_payload(project, result, t))]

RECURSIVE after_saves(_, _, _, _)
after_saves(dir, project, results, t) ==
    IF results = <<>> THEN dir
    ELSE after_saves(after_save(dir, project, Head(results), t), project, Tail(results), t + 1)

\* the directory once the run files outside kept have been removed
without_files(dir, kept) == [dir EXCEPT !.files = [n \in kept \cap DOMAIN dir.files |-> dir.files[n]]]

RECURSIVE SplitOn(_, _)
\* text.split(sep) for a one-character separator
SplitOn(s, sep) ==
    IF \A i \in DOMAIN s : s[i] # sep THEN <<s>>
    ELSE LET k == CHOOSE i \in DOMAIN s : s[i] = sep /\ \A j \in 1..(i - 1) : s[j] # sep
         IN  <<SubSeq(s, 1, k - 1)>> \o SplitOn(SubSeq(s, k + 1, Len(s)), sep)

\* project_dir / rel_path
path_under(slug, rel_path) == <<slug>> \o SplitOn(rel_path, "/")

\* path.exists() for a path of the project directory
path_exists(dir, slug, path) ==
    /\ Len(path) = 3
    /\ path[1] = slug
    /\ path[2] = Str(<<"r", "u", "n", "s">>)
    /\ path[3] \in DOMAIN dir.files

RECURSIVE run_paths_of_existing(_, _, _, _)
\* a runs mapping that lists only the entries whose file exists
run_paths_of_existing(dir, slug, order, run_paths) ==
    IF order = <<>> THEN run_paths
    ELSE LET path == path_under(slug, dir.manifest.doc.runs[Head(order)].run_file)
         IN  run_paths_of_existing(dir, slug, Tail(order),
                IF path_exists(dir, slug, path) THEN DictSet(run_paths, Head(order), path)
                ELSE run_paths)

RECURSIVE run_paths_of(_, _, _, _)
\* run_paths[str(seed_id)] = path, for every manifest entry
run_paths_of(dir, slug, order, run_paths) ==
    IF order = <<>> THEN run_paths
    ELSE LET path == path_under(slug, dir.manifest.doc.runs[Head(order)].run_file)
         IN  run_paths_of(dir, slug, Tail(order), DictSet(run_paths, Head(order), path))

RECURSIVE results_of(_, _, _)
\* results.append(from_dict(payload)) for every entry whose file exists
results_of(dir, slug, order) ==
    IF order = <<>> THEN <<>>
    ELSE LET path == path_under(slug, dir.manifest.doc.runs[Head(order)].run_file)
         IN  (IF path_exists(dir, slug, path)
              THEN <<result_from_dict(dir.files[path[3]])>> ELSE <<>>)
             \o results_of(dir, slug, Tail(order))

\* load_project
load_project(dir, project) ==
    LET slug == slugify(project)
    IN  IF ~dir.manifest.exists THEN Raised
        ELSE LET m == dir.manifest.doc
             IN  Returned(ProjectData(m.name, m.slug, m.theme,
                                      run_paths_of(dir, slug, dir.order, EmptyDict),
                                      results_of(dir, slug, dir.order)))

LoadThemes == {"ai"}
LoadResults == {MakeResult(s, t, v, "reference") : s \in RunSeedIds, t \in LoadThemes, v \in Verdicts}
RunFileNames == {run_filename(r) : r \in LoadResults}

LoadInputs(project, results, kept) ==
    [op |-> "load_project", project |-> project,
     dir |-> without_files(after_saves(NoProjectDir, project, results, 0), kept)]

load_project_call ==
    /\ call.op = "load_project"
    /\ ~ret.done
    /\ ret' = Done(load_project(call.dir, call.project))
    /\ UNCHANGED <<call, proc>>

-----------------------------------------------------------------------------
(* SimpleThemeRelevanceAgent                                                *)

MaxEval == 2        \* longest list of works handed to evaluate

TokenChars == DigitChars \o LowerLetters       \* [a-z0-9], in code-point order

CharRank(c) == CHOOSE i \in DOMAIN TokenChars : TokenChars[i] = c

RECURSIVE TextLess(_, _)
\* a < b for two texts over [a-z0-9]
TextLess(a, b) ==
    IF b = <<>> THEN FALSE
    ELSE IF a = <<>> THEN TRUE
    ELSE IF Head(a) # Head(b) THEN CharRank(Head(a)) < CharRank(Head(b))
    ELSE TextLess(Tail(a), Tail(b))

RECURSIVE SortedTexts(_)
\* sorted(S) for a set of texts
SortedTexts(S) ==
    IF S = {} THEN <<>>
    ELSE LET least == CHOOSE x \in S : \A y \in S \ {x} : TextLess(x, y)
         IN  <<least>> \o SortedTexts(S \ {least})

RECURSIVE FindRuns(_, _, _)
\* re.findall("[Keep]+", s): the maximal runs of characters of Keep
FindRuns(s, Keep, run) ==
    IF s = <<>> THEN (IF run = <<>> THEN <<>> ELSE <<run>>)
    ELSE IF Head(s) \in Keep THEN FindRuns(Tail(s), Keep, Append(run, Head(s)))
    ELSE (IF run = <<>> THEN <<>> ELSE <<run>>) \o FindRuns(Tail(s), Keep, <<>>)

IsCombining(c) == c = CombiningAcute

\* _extract_tokens
extract_tokens(text) ==
    LET lowered == [i \in DOMAIN text |-> LowerChar(text[i])]
        normalized == NfkdText(lowered)
        ascii_text == SelectSeq(normalized, LAMBDA ch : ~IsCombining(ch))
    IN  FindRuns(ascii_text, Range(TokenChars), <<>>)

\* _prepare_theme
prepare_theme(theme) == SortedTexts(Range(extract_tokens(theme)))

\* the three justifications of _score_work
NoKeywords == [says |-> "No theme keywords provided; defaulting to acceptance"]
MatchIn(keyword, field_name) ==
    [says |-> "Matches theme keyword '{keyword}' in {field_name}",
     keyword |-> keyword, field_name |-> field_name]
NoMatch(keywords) ==
    [says |-> "No theme keyword match found (expected one of: {keywords})", keywords |-> keywords]

\* value or ""
OrEmpty(optional) == IF optional = NoneValue THEN <<>> ELSE optional[1]

search_fields(work) ==
    << [field_name |-> "title", content |-> work.title],
       [field_name |-> "abstract", content |-> OrEmpty(work.abstract)],
       [field_name |-> "primary_topic", content |-> OrEmpty(work.primary_topic)] >>

\* the tokens of the theme found in one field, in theme order
matches_in(content, tokens) ==
    SelectSeq(tokens, LAMBDA token : token \in Range(extract_tokens(content)))

RECURSIVE scan_last_match(_, _)
\* a scan in which a later matching field replaces an earlier one
scan_last_match(fields, tokens) ==
    IF fields = <<>> THEN NoneValue
    ELSE LET field == fields[Len(fields)]
             matches == matches_in(field.content, tokens)
         IN  IF matches # <<>> THEN Some(MatchIn(matches[1], field.field_name))
             ELSE scan_last_match(SubSeq(fields, 1, Len(fields) - 1), tokens)

RECURSIVE scan_fields(_, _)
\* the loop over search_fields: the first field with a match decides
scan_fields(fields, tokens) ==
    IF fields = <<>> THEN NoneValue
    ELSE LET matches == matches_in(Head(fields).content, tokens)
         IN  IF matches # <<>> THEN Some(MatchIn(matches[1], Head(fields).field_name))
             ELSE scan_fields(Tail(fields), tokens)

\* _score_work
score_work(work, tokens) ==
    IF tokens = <<>> THEN [verdict |-> "accepted", justification |-> NoKeywords]
    ELSE LET found == scan_fields(search_fields(work), tokens)
         IN  IF found # NoneValue THEN [verdict |-> "accepted", justification |-> found[1]]
             ELSE [verdict |-> "rejected", justification |-> NoMatch(tokens)]

\* SimpleThemeRelevanceAgent.evaluate
evaluate(works, theme, relation) ==
    LET tokens == prepare_theme(theme)
    IN  [i \in DOMAIN works |->
            LET scored == score_work(works[i], tokens)
            IN  WorkDecision(works[i], scored.verdict, scored.justification, relation, NoneValue)]

TextWork(id, title, abstract, primary_topic) ==
    [Work(id, title, Some(2020), <<>>) EXCEPT !.abstract = abstract, !.primary_topic = primary_topic]

ThemeTexts ==
    { Str(<<>>), Str(<<"-", "-">>), Str(<<"a", "i">>), Str(<<"m", "l", ",", " ", "A", "I">>),
      Str(<<"é", "!">>) }

FieldTitles == { Str(<<"a", "i", " ", "x">>), Str(<<"b", "i", "o">>), Str(<<"a", "i", "r">>) }
FieldAbstracts == { NoneValue, Some(Str(<<"m", "l", "-", "a", "i">>)) }
FieldTopics == { NoneValue, Some(Str(<<"A", "i">>)), Some(Str(<<"E">>)) }

ScoredWorks ==
    {TextWork(Str(<<"W">>), t, a, p) : t \in FieldTitles, a \in FieldAbstracts, p \in FieldTopics}

EvaluateInputs ==
    [op : {"evaluate"}, works : SeqsUpTo(ScoredWorks, MaxEval), theme : ThemeTexts,
     relation : {"citation"}]

evaluate_call ==
    /\ call.op = "evaluate"
    /\ ~ret.done
    /\ ret' = Done(evaluate(call.works, call.theme, call.relation))
    /\ UNCHANGED <<call, proc>>

-----------------------------------------------------------------------------
(* LLMThemeRelevanceAgent                                                   *)

MaxLlmWorks == 2    \* longest list of works handed to the LLM agent

RetryConfigs == {0, 1, 2}       \* max_retries as passed to the constructor

\* the limit taken as configured, without the clamp
configured_retries(max_retries) == max_retries

\* self._max_retries = max(1, int(max_retries))
effective_retries(max_retries) == IF max_retries < 1 THEN 1 ELSE max_retries

Accepted == Str(<<"a", "c", "c", "e", "p", "t", "e", "d">>)
Rejected == Str(<<"r", "e", "j", "e", "c", "t", "e", "d">>)

VerdictName(text) == IF text = Accepted THEN "accepted" ELSE "rejected"

Whitespace == {" ", "\n", "\t"}

\* What one request to the LLM endpoint gives: a failed request, or a reply
\* whose content is (possibly fenced) text that is JSON or not.
RequestFailed == [status |-> "failed"]
Content(fenced, json) == [status |-> "ok", fenced |-> fenced, json |-> json]
JsonObject(verdict, justification) == Some([verdict |-> verdict, justification |-> justification])

LlmReplies ==
    { RequestFailed,
      Content(FALSE, NoneValue),
      Content(FALSE, JsonObject(Str(<<"m", "a", "y", "b", "e">>), Str(<<"o", "k">>))),
      Content(FALSE, JsonObject(Accepted, Str(<<" ", " ">>))),
      Content(TRUE, JsonObject(Str(<<" ", "A", "c", "c", "e", "p", "t", "e", "d", "\n">>),
                               Str(<<" ", "o", "k">>))),
      Content(FALSE, JsonObject(Rejected, Str(<<"o", "k">>))) }

ParseError(why) == [raised |-> TRUE, why |-> why]

\* _parse_llm_content, after the fence has been cut away
parse_llm_content(content) ==
    IF content.json = NoneValue THEN ParseError("invalid JSON")
    ELSE LET parsed == content.json[1]
             stripped == Strip(parsed.verdict, Whitespace)
             verdict == [i \in DOMAIN stripped |-> LowerChar(stripped[i])]
             justification == Strip(parsed.justification, Whitespace)
         IN  IF verdict \notin {Accepted, Rejected} THEN ParseError("Unexpected verdict from LLM")
             ELSE IF justification = <<>> THEN ParseError("LLM justification is empty")
             ELSE Returned([verdict |-> VerdictName(verdict), justification |-> justification])

\* one pass of the retry loop: the request, then the parse of its content
attempt(reply) == IF reply.status = "failed" THEN ParseError("request failed")
                  ELSE parse_llm_content(reply)

RECURSIVE classify_with_llm(_, _, _)
\* _classify_with_llm: replies[n] is what the n-th request gives; the result
\* carries the number of requests made
classify_with_llm(replies, max_retries, made) ==
    IF made >= max_retries THEN [raised |-> TRUE, why |-> "LLM classification failed", requests |-> made]
    ELSE LET outcome == attempt(replies[made + 1])
         IN  IF outcome.raised THEN classify_with_llm(replies, max_retries, made + 1)
             ELSE [raised |-> FALSE, value |-> outcome.value, requests |-> made + 1]

Fallback(justification, error) ==
    [says |-> "Fallback to heuristic: {fallback.justification} (LLM error: {exc})",
     fallback |-> justification, error |-> error]
Unclassified(error) == [says |-> "Unable to classify via LLM: {exc}", error |-> error]
FromLlm(text) == [says |-> "{justification}", text |-> text]

\* fallback_map = {decision.work.openalex_id: decision}
fallback_map_of(fallback_decisions) ==
    [id \in {fallback_decisions[i].work.openalex_id : i \in DOMAIN fallback_decisions} |->
        LET hit == CHOOSE i \in DOMAIN fallback_decisions :
                      /\ fallback_decisions[i].work.openalex_id = id
                      /\ \A j \in DOMAIN fallback_decisions :
                            fallback_decisions[j].work.openalex_id = id => j <= i
        IN  fallback_decisions[hit]]

\* the decision on a failed classification when the error is passed on as a verdict of its own
decide_without_fallback(work, classified, fallback_map, relation) ==
    IF classified.raised
    THEN WorkDecision(work, "rejected", Unclassified(classified.why), relation, NoneValue)
    ELSE WorkDecision(work, classified.value.verdict, FromLlm(classified.value.justification),
                      relation, NoneValue)

\* the body of the loop of LLMThemeRelevanceAgent.evaluate for one work
decide(work, classified, fallback_map, relation) ==
    IF classified.raised
    THEN IF work.openalex_id \in DOMAIN fallback_map
         THEN LET fallback == fallback_map[work.openalex_id]
              IN  WorkDecision(work, fallback.verdict,
                               Fallback(fallback.justification, classified.why), relation, NoneValue)
         ELSE WorkDecision(work, "rejected", Unclassified(classified.why), relation, NoneValue)
    ELSE WorkDecision(work, classified.value.verdict, FromLlm(classified.value.justification),
                      relation, NoneValue)

\* LLMThemeRelevanceAgent.evaluate; replies[id] are the replies to the
\* requests about the work with that identifier, attempt after attempt
llm_evaluate(works, theme, relation, max_retries, replies) ==
    LET fallback_decisions == evaluate(works, theme, relation)
        fallback_map == fallback_map_of(fallback_decisions)
        classified == [i \in DOMAIN works |->
                          classify_with_llm(replies[works[i].openalex_id], max_retries, 0)]
    IN  [decisions |-> [i \in DOMAIN works |-> decide(works[i], classified[i], fallback_map, relation)],
         requests |-> [i \in DOMAIN works |-> classified[i].requests]]

LlmWorks ==
    { TextWork(Str(<<"W", "1">>), Str(<<"a", "i", " ", "x">>), NoneValue, NoneValue),
      TextWork(Str(<<"W", "2">>), Str(<<"b", "i", "o">>), NoneValue, NoneValue) }

LlmWorkIds == {w.openalex_id : w \in LlmWorks}

LlmInputs(n) ==
    [op : {"llm_evaluate"}, works : SeqsUpTo(LlmWorks, MaxLlmWorks), theme : {Str(<<"a", "i">>)},
     relation : {"reference"}, max_retries : {effective_retries(n)},
     replies : [LlmWorkIds -> [1..effective_retries(n) -> LlmReplies]]]

llm_evaluate_call ==
    /\ call.op = "llm_evaluate"
    /\ ~ret.done
    /\ ret' = Done(llm_evaluate(call.works, call.theme, call.relation, call.max_retries, call.replies))
    /\ UNCHANGED <<call, proc>>

-----------------------------------------------------------------------------
(* OpenAlexHttpClient                                                       *)

MaxPages == 2       \* most pages the citation query has
MaxPageItems == 2   \* most results on one page
MaxCap == 3         \* largest max_citations configured
MaxRefs == 3        \* longest referenced_works list

\* _normalize_work_id: the text after the last "/"
normalize_work_id(value) ==
    IF value = <<>> THEN <<>>
    ELSE IF "/" \in Range(value)
         THEN LET parts == SplitOn(value, "/") IN parts[Len(parts)]
         ELSE value

\* _parse_work, for a record that carries an identifier
parse_work(item) ==
    Work(normalize_work_id(item.id), item.title, item.publication_year, <<>>)

ApiItem(id) == [id |-> Str(<<"o", "/">>) \o id, title |-> "Paper", publication_year |-> Some(2020)]

\* One page of the cursor protocol: its results and whether meta.next_cursor is set.
Page(results, next_cursor) == [results |-> results, next_cursor |-> next_cursor]

RECURSIVE yield_items(_, _, _)
\* the loop "for item in results": yield, then count down and stop at the cap
yield_items(results, remaining, yielded) ==
    IF results = <<>> THEN [yielded |-> yielded, remaining |-> remaining, returned |-> FALSE]
    ELSE LET out == Append(yielded, Head(results))
         IN  IF remaining # NoneValue
             THEN LET left == remaining[1] - 1
                  IN  IF left <= 0
                      THEN [yielded |-> out, remaining |-> Some(left), returned |-> TRUE]
                      ELSE yield_items(Tail(results), Some(left), out)
             ELSE yield_items(Tail(results), NoneValue, out)

RECURSIVE iterate_paginated(_, _, _, _)
\* _iterate_paginated: pages[k] answers the k-th request
iterate_paginated(pages, k, remaining, yielded) ==
    LET payload == pages[k]
    IN  IF payload.results = <<>> THEN [items |-> yielded, requests |-> k]
        ELSE LET page == yield_items(payload.results, remaining, yielded)
             IN  IF page.returned \/ ~payload.next_cursor
                 THEN [items |-> page.yielded, requests |-> k]
                 ELSE iterate_paginated(pages, k + 1, page.remaining, page.yielded)

\* fetch_citations
fetch_citations(pages, max_citations) ==
    LET iterated == iterate_paginated(pages, 1, max_citations, <<>>)
    IN  [works |-> [i \in DOMAIN iterated.items |-> parse_work(iterated.items[i])],
         requests |-> iterated.requests]

PageItems(p, n) == [j \in 1..n |-> ApiItem(Str(<<"C">>) \o Digits(p) \o Digits(j))]

\* max_citations: absent, or any integer
Caps == {NoneValue} \cup {Some(n) : n \in (-1)..MaxCap}

\* What the server can answer request after request: the size of each page and
\* whether it names a next cursor.
PageShapes(m) == [1..m -> [size : 0..MaxPageItems, next_cursor : BOOLEAN]]

CitationInputs(shape, cap) ==
    [op |-> "fetch_citations",
     pages |-> [p \in DOMAIN shape |-> Page(PageItems(p, shape[p].size), shape[p].next_cursor)],
     max_citations |-> cap]

fetch_citations_call ==
    /\ call.op = "fetch_citations"
    /\ ~ret.done
    /\ ret' = Done(fetch_citations(call.pages, call.max_citations))
    /\ UNCHANGED <<call, proc>>

\* _chunk
RECURSIVE chunk(_, _)
chunk(items, size) ==
    LET step == IF size < 1 THEN 1 ELSE size
    IN  IF items = <<>> THEN <<>>
        ELSE IF Len(items) <= step THEN <<items>>
        ELSE <<SubSeq(items, 1, step)>> \o chunk(SubSeq(items, step + 1, Len(items)), size)

Reversed(s) == [i \in DOMAIN s |-> s[Len(s) + 1 - i]]

\* The batch lookup of one chunk: the server knows the works in found and
\* lists them in request order or in the opposite order.
lookup(ids, server) ==
    LET known == SelectSeq(ids, LAMBDA id : id \in server.found)
        results == [i \in DOMAIN known |-> ApiItem(known[i])]
    IN  IF server.reversed THEN Reversed(results) ELSE results

RECURSIVE collect(_, _)
\* collected[work.openalex_id] = work, over the results of one lookup
collect(results, collected) ==
    IF results = <<>> THEN collected
    ELSE LET work == parse_work(Head(results))
         IN  collect(Tail(results), DictSet(collected, work.openalex_id, work))

RECURSIVE collect_chunks(_, _, _)
collect_chunks(chunks, server, collected) ==
    IF chunks = <<>> THEN collected
    ELSE collect_chunks(Tail(chunks), server, collect(lookup(Head(chunks), server), collected))

RECURSIVE all_results(_, _)
\* the results of the lookups, lookup after lookup
all_results(chunks, server) ==
    IF chunks = <<>> THEN <<>>
    ELSE lookup(Head(chunks), server) \o all_results(Tail(chunks), server)

\* the works in the order the lookups returned them
in_collection_order(work_ids, collected, chunks, server) ==
    LET answered == all_results(chunks, server)
    IN  [i \in DOMAIN answered |-> collected[parse_work(answered[i]).openalex_id]]

\* ordered = [collected[work_id] for work_id in work_ids if work_id in collected]
in_request_order(work_ids, collected, chunks, server) ==
    LET present == SelectSeq(work_ids, LAMBDA id : id \in DOMAIN collected)
    IN  [i \in DOMAIN present |-> collected[present[i]]]

\* _fetch_many
fetch_many(work_ids, bulk_page_size, server) ==
    IF work_ids = <<>> THEN [works |-> <<>>, lookups |-> 0]
    ELSE LET chunks == chunk(work_ids, bulk_page_size)
             collected == collect_chunks(chunks, server, EmptyDict)
         IN  [works |-> in_request_order(work_ids, collected, chunks, server),
              lookups |-> Len(chunks)]

\* fetch_references: raw_refs is the referenced_works list of the work's record
fetch_references(raw_refs, bulk_page_size, server) ==
    LET kept == SelectSeq(raw_refs, LAMBDA value : value # <<>>)
        ref_ids == [i \in DOMAIN kept |-> normalize_work_id(kept[i])]
    IN  IF ref_ids = <<>> THEN [works |-> <<>>, lookups |-> 0]
        ELSE fetch_many(ref_ids, bulk_page_size, server)

RefIds == {Str(<<"A">>), Str(<<"B">>), Str(<<"C">>)}
RawRefs == {Str(<<>>), Str(<<"o", "/", "A">>), Str(<<"B">>), Str(<<"o", "/", "C">>)}
BulkPageSizes == {0, 1, 2}

ReferenceInputs(size) ==
    [op : {"fetch_references"}, raw_refs : SeqsUpTo(RawRefs, MaxRefs),
     bulk_page_size : {IF size < 1 THEN 1 ELSE size},
     server : [found : SUBSET RefIds, reversed : BOOLEAN]]

fetch_references_call ==
    /\ call.op = "fetch_references"
    /\ ~ret.done
    /\ ret' = Done(fetch_references(call.raw_refs, call.bulk_page_size, call.server))
    /\ UNCHANGED <<call, proc>>

-----------------------------------------------------------------------------
(* OpenAlexResearchOrchestrator                                             *)

MaxRelated == 2   \* longest reference list and longest citation list of a run

\* OpenAlexResearchResult.decisions
decisions_of(result) == result.accepted \o result.rejected

\* decisions keyed by the identifier of their work alone
attach_identifiers(decisions, keys) ==
    [i \in DOMAIN decisions |->
        [decisions[i] EXCEPT !.graph_key = decisions[i].work.openalex_id]]

\* decision.graph_key = keys.get(decision.work.openalex_id, decision.work.openalex_id)
attach_keys(decisions, keys) ==
    [i \in DOMAIN decisions |->
        LET id == decisions[i].work.openalex_id
        IN  [decisions[i] EXCEPT !.graph_key = IF id \in DOMAIN keys THEN keys[id] ELSE id]]

\* [decision for decision in decisions if decision.verdict == verdict]
with_verdict(decisions, verdict) == SelectSeq(decisions, LAMBDA d : d.verdict = verdict)

\* OpenAlexResearchOrchestrator.run with the default agent, key generator and
\* builder, given what the service answers for the seed and its two relations
run(answers, theme) ==
    IF answers.raised THEN Raised
    ELSE LET seed == answers.value.seed
             references == answers.value.references
             citations == answers.value.citations
             all_works == <<seed>> \o references \o citations
             keys == assign_keys(all_works).keys
             reference_decisions == evaluate(references, theme, "reference")
             citation_decisions == evaluate(citations, theme, "citation")
             decisions == attach_keys(reference_decisions \o citation_decisions, keys)
             graph == build(seed, decisions, keys)
         IN  Returned(OpenAlexResearchResult(seed, theme,
                                             with_verdict(decisions, "accepted"),
                                             with_verdict(decisions, "rejected"),
                                             graph))

RunSeed == Work(Str(<<"S">>), Str(<<"a", "i", " ", "x">>), Some(2020), <<Smith>>)
\* the seed itself, a work sharing the seed's author and year, and a work
\* without authors
RunWorks ==
    { RunSeed,
      Work(Str(<<"W", "1">>), Str(<<"b", "i", "o">>), Some(2020), <<Smith>>),
      Work(Str(<<"W", "2">>), Str(<<"a", "i", " ", "x">>), NoneValue, <<>>) }

RunThemes == { Str(<<"a", "i">>), Str(<<>>) }

\* the service raises, or answers with the seed and its two relations
ServiceAnswers ==
    {Raised} \cup
    [raised : {FALSE},
     value : [seed : {RunSeed}, references : SeqsUpTo(RunWorks, MaxRelated),
              citations : SeqsUpTo(RunWorks, MaxRelated)]]

RunInputs == [op : {"run"}, answers : ServiceAnswers, theme : RunThemes]

run_call ==
    /\ call.op = "run"
    /\ ~ret.done
    /\ ret' = Done(run(call.answers, call.theme))
    /\ UNCHANGED <<call, proc>>

\* what a call of the agent's set_run_context hook may do
HookOutcomes == {"ok", "TypeError", "ValueError"}

\* the agent has no set_run_context attribute
NoHook == [present |-> FALSE]
\* the agent has one: how it answers set_run_context(seed=, theme=) and
\* set_run_context(seed=)
Hook(with_theme, seed_only) == [present |-> TRUE, with_theme |-> with_theme, seed_only |-> seed_only]

\* the hasattr/try/except block of run: TRUE when run goes on to evaluate
context_set(hook) ==
    IF ~hook.present THEN TRUE
    ELSE IF hook.with_theme = "ok" THEN TRUE
    ELSE IF hook.with_theme = "TypeError" THEN hook.seed_only = "ok"
    ELSE FALSE

\* OpenAlexResearchOrchestrator.run with an agent that scores like the default
\* one and whose set_run_context hook behaves as given
run_with_context(answers, theme, hook) ==
    IF answers.raised THEN Raised
    ELSE IF ~context_set(hook) THEN Raised
    ELSE run(answers, theme)

RunHooks == {NoHook} \cup {Hook(a, b) : a \in HookOutcomes, b \in HookOutcomes}

ContextInputs ==
    [op : {"run_with_context"}, answers : ServiceAnswers, theme : RunThemes, hook : RunHooks]

run_with_context_call ==
    /\ call.op = "run_with_context"
    /\ ~ret.done
    /\ ret' = Done(run_with_context(call.answers, call.theme, call.hook))
    /\ UNCHANGED <<call, proc>>

-----------------------------------------------------------------------------
(* RelatedPaperHarvester                                                    *)

MaxHarvested == 2   \* longest list of papers handed to harvest

\* PaperRecord, reduced to the fields harvest reads and a title that tells
\* records apart; paper_id is NoneValue, Some("") or Some(identifier)
PaperRecord(source, paper_id, title) == [source |-> source, paper_id |-> paper_id, title |-> title]

\* truth value of an Optional[str]
Truthy(paper_id) == paper_id # NoneValue /\ paper_id # Some("")

Lower(text) == [i \in DOMAIN text |-> LowerChar(text[i])]

Partial == Str(<<"p", "a", "r", "t", "i", "a", "l">>)

\* RelatedPaperHarvesterConfig; max_per_relation is only handed to the fetcher
RelatedPaperHarvesterConfig(include_references, include_citations, eligible_labels) ==
    [include_references |-> include_references, include_citations |-> include_citations,
     eligible_labels |-> IF eligible_labels = NoneValue THEN {Partial} ELSE eligible_labels[1]]

\* _is_label_eligible
is_label_eligible(paper_id, labels, config) ==
    IF paper_id \notin DOMAIN labels THEN TRUE
    ELSE Lower(labels[paper_id]) \in config.eligible_labels

FetchFailed == [failed |-> TRUE]
Fetched(results) == [failed |-> FALSE, results |-> results]

RECURSIVE collect_without_marking(_, _, _)
\* the loop of _collect_related without seen.add
collect_without_marking(results, seen, collected) ==
    IF results = <<>> THEN [collected |-> collected, seen |-> seen]
    ELSE LET record_id == Head(results).paper_id
         IN  IF Truthy(record_id) /\ record_id \in seen
             THEN collect_without_marking(Tail(results), seen, collected)
             ELSE collect_without_marking(Tail(results), seen, Append(collected, Head(results)))

RECURSIVE collect_loop(_, _, _)
\* the loop of _collect_related over the fetched records
collect_loop(results, seen, collected) ==
    IF results = <<>> THEN [collected |-> collected, seen |-> seen]
    ELSE LET record_id == Head(results).paper_id
         IN  IF Truthy(record_id) /\ record_id \in seen
             THEN collect_loop(Tail(results), seen, collected)
             ELSE collect_loop(Tail(results),
                               IF Truthy(record_id) THEN seen \cup {record_id} ELSE seen,
                               Append(collected, Head(results)))

\* _collect_related, given what the fetcher answered for the paper
collect_related(answer, seen) ==
    IF answer.failed THEN [collected |-> <<>>, seen |-> seen]
    ELSE collect_loop(answer.results, seen, <<>>)

RECURSIVE harvest_loop(_, _, _, _, _, _)
\* the loop of harvest over the papers
harvest_loop(papers, labels, config, client, seen, derived) ==
    IF papers = <<>> THEN derived
    ELSE LET paper == Head(papers)
             rest == Tail(papers)
         IN  IF paper.source # "semantic_scholar"
             THEN harvest_loop(rest, labels, config, client, seen, derived)
             ELSE IF ~Truthy(paper.paper_id)
             THEN harvest_loop(rest, labels, config, client, seen, derived)
             ELSE IF /\ labels # NoneValue
                     /\ DOMAIN labels[1] # {}
                     /\ ~is_label_eligible(paper.paper_id, labels[1], config)
             THEN harvest_loop(rest, labels, config, client, seen, derived)
             ELSE LET references ==
                         IF config.include_references
                         THEN collect_related(client["references"][paper.paper_id], seen)
                         ELSE [collected |-> <<>>, seen |-> seen]
                      citations ==
                         IF config.include_citations
                         THEN collect_related(client["citations"][paper.paper_id], references.seen)
                         ELSE [collected |-> <<>>, seen |-> references.seen]
                  IN  harvest_loop(rest, labels, config, client, citations.seen,
                                   derived \o references.collected \o citations.collected)

\* RelatedPaperHarvester.harvest
harvest(papers, labels, seen_ids, config, client) ==
    LET given == IF seen_ids = NoneValue THEN <<>> ELSE seen_ids[1]
        seen == {given[i] : i \in {j \in DOMAIN given : Truthy(given[j])}}
    IN  harvest_loop(papers, labels, config, client, seen, <<>>)

HarvestIds == {Some("p1"), Some("p2")}
HarvestPapers ==
    { PaperRecord("semantic_scholar", Some("p1"), "Paper 1"),
      PaperRecord("semantic_scholar", Some("p2"), "Paper 2"),
      PaperRecord("google_scholar", Some("p1"), "Paper 1"),
      PaperRecord("semantic_scholar", Some(""), "No id") }

RelatedA == PaperRecord("semantic_scholar", Some("r1"), "Related A")
RelatedB == PaperRecord("semantic_scholar", Some("r1"), "Related B")
RelatedC == PaperRecord("semantic_scholar", Some("r2"), "Related C")
RelatedN == PaperRecord("semantic_scholar", NoneValue, "Untitled")

\* what a fetcher may answer for a paper
ReferenceAnswers ==
    { FetchFailed, Fetched(<<RelatedA, RelatedB>>), Fetched(<<RelatedN, RelatedC, RelatedN>>),
      Fetched(<<RelatedC, RelatedA>>) }
CitationAnswers == { Fetched(<<>>), Fetched(<<RelatedB, RelatedC>>) }

Clients ==
    {[references |-> r, citations |-> c] :
        r \in [HarvestIds -> ReferenceAnswers], c \in [HarvestIds -> CitationAnswers]}

LabelMaps ==
    { NoneValue, Some(EmptyDict),
      Some(Some("p1") :> Str(<<"P", "a", "r", "t", "i", "a", "l">>)),
      Some(Some("p1") :> Str(<<"n", "o">>)) }

SeenLists == { NoneValue, Some(<<Some("r1")>>), Some(<<Some(""), Some("r2")>>) }

HarvesterConfigs ==
    {RelatedPaperHarvesterConfig(r, c, NoneValue) : r \in BOOLEAN, c \in BOOLEAN}

HarvestInputs ==
    [op : {"harvest"}, papers : SeqsUpTo(HarvestPapers, MaxHarvested), labels : LabelMaps,
     seen_ids : SeenLists, config : HarvesterConfigs, client : Clients]

harvest_call ==
    /\ call.op = "harvest"
    /\ ~ret.done
    /\ ret' = Done(harvest(call.papers, call.labels, call.seen_ids, call.config, call.client))
    /\ UNCHANGED <<call, proc>>

-----------------------------------------------------------------------------
(* SemanticScholarClient: unauthenticated search                            *)

MaxSearchLimit == 3   \* largest limit passed to search
MaxBatch == 2         \* most items in one page of the bulk endpoint
BulkPageCap == 100    \* the largest page size the client asks for

Maximum(a, b) == IF a >= b THEN a ELSE b
Minimum(a, b) == IF a <= b THEN a ELSE b

\* limit = limit or self.default_limit; limit = max(1, limit)
search_limit(limit, default_limit) ==
    Maximum(1, IF limit = NoneValue \/ limit = Some(0) THEN default_limit ELSE limit[1])

\* truth value of the token of a payload: absent, "" or a text
TokenGiven(token) == token # NoneValue /\ token # Some("")

\* the parameters of a request that never carries a token
request_params_without_token(limit, accumulated, next_token) ==
    [limit |-> Maximum(1, Minimum(limit - Len(accumulated), BulkPageCap)), token |-> NoneValue]

\* the parameters of the next request of _search_unauth
request_params(limit, accumulated, next_token) ==
    [limit |-> Maximum(1, Minimum(limit - Len(accumulated), BulkPageCap)),
     token |-> IF TokenGiven(next_token) THEN next_token ELSE NoneValue]

\* what the bulk endpoint may answer to the k-th request
SearchTokens == {NoneValue, Some(""), Some("t1"), Some("t2")}
SearchBatch(k, n) == [j \in 1..n |-> [paperId |-> <<k, j>>]]
SearchFailures == {"RequestException", "429", "500"}

SearchArgs == [op : {"search"}, limit : {NoneValue} \cup {Some(n) : n \in (-1)..MaxSearchLimit},
               default_limit : 1..2]

\* search(query, limit) without api key, up to the first request
search_started(args) ==
    [pc |-> "loop", limit |-> search_limit(args.limit, args.default_limit),
     accumulated |-> <<>>, next_token |-> NoneValue, requests |-> <<>>, pages |-> <<>>]

\* one pass of the while loop whose request fails
search_request_fails ==
    /\ call.op = "search"
    /\ proc.pc = "loop"
    /\ Len(proc.accumulated) < proc.limit
    /\ \E failure \in SearchFailures :
        /\ proc' = [proc EXCEPT !.pc = "done",
                        !.requests = Append(@, request_params(proc.limit, proc.accumulated,
                                                              proc.next_token))]
        /\ ret' = Done([raised |-> TRUE, error |-> failure])
    /\ UNCHANGED call

\* one pass of the while loop whose request is answered with a page
search_request_page ==
    /\ call.op = "search"
    /\ proc.pc = "loop"
    /\ Len(proc.accumulated) < proc.limit
    /\ \E size \in 0..MaxBatch, token \in SearchTokens :
        LET batch == SearchBatch(Len(proc.requests) + 1, size)
        IN  proc' = [proc EXCEPT
                        !.requests = Append(@, request_params(proc.limit, proc.accumulated,
                                                              proc.next_token)),
                        !.pages = Append(@, [data |-> batch, token |-> token]),
                        !.accumulated = @ \o batch,
                        !.next_token = token,
                        !.pc = IF ~TokenGiven(token) \/ batch = <<>> THEN "break" ELSE "loop"]
    /\ UNCHANGED <<call, ret>>

\* return accumulated[:limit], after a break or when the loop condition fails
search_return ==
    /\ call.op = "search"
    /\ proc.pc = "break" \/ (proc.pc = "loop" /\ Len(proc.accumulated) >= proc.limit)
    /\ proc' = [proc EXCEPT !.pc = "done"]
    /\ ret' = Done(Returned(take(proc.accumulated, proc.limit)))
    /\ UNCHANGED call

-----------------------------------------------------------------------------
(* save_run step by step, and cache instances sharing one file             *)

MaxSaves == 2       \* save_run invocations started in all

Savers == {"P1", "P2"}          \* processes saving into the same project
Instances == {"I1", "I2"}       \* JsonFileCache instances on the same path
InstanceIds == CacheIds \cup {<<"C">>}     \* identifiers their services are asked for

SavedResults == {MakeResult(s, t, "accepted", "reference") : s \in RunSeedIds, t \in {"ai", "ml"}}

\* the file operations of save_run in the order the code performs them
save_run_steps_manifest_first == <<"load_manifest", "write_manifest", "write_run_file">>

save_run_steps == <<"load_manifest", "write_run_file", "write_manifest">>

\* a manifest writer that merges its run into the manifest now on disk
manifest_reread(loaded, on_disk) == IF on_disk.exists THEN on_disk.doc ELSE loaded

\* the manifest dict save_run updates and writes: the one it loaded
manifest_held(loaded, on_disk) == loaded

NotSaving == [at |-> 0]

Saving(p) == proc.savers[p]

NextFileStep(p) == IF Saving(p).at = 0 THEN "none" ELSE save_run_steps[Saving(p).at]

AfterStep(p, local) ==
    IF local.at = Len(save_run_steps)
    THEN [proc EXCEPT !.savers[p] = NotSaving,
                      !.finished[p] = @ \cup {local.result.seed.openalex_id}]
    ELSE [proc EXCEPT !.savers[p] = [local EXCEPT !.at = @ + 1]]

SavingStep(name, p) ==
    [op |-> name, p |-> p, loaded |-> Saving(p).loaded, result |-> Saving(p).result]

\* a process enters save_run(project, result)
save_run_begin(p) ==
    /\ proc.pc = "saving"
    /\ Saving(p).at = 0
    /\ proc.started < MaxSaves
    /\ \E project \in ProjectNames, result \in SavedResults :
          proc' = [proc EXCEPT !.savers[p] = [at |-> 1, project |-> project, result |-> result,
                                              loaded |-> NoManifest],
                               !.started = @ + 1]
    /\ rlast' = [op |-> "begin", p |-> p]
    /\ UNCHANGED <<manifest, runFiles, now, saved, firstTheme>>

\* _load_manifest and the theme check
save_run_load(p) ==
    /\ NextFileStep(p) = "load_manifest"
    /\ LET local == Saving(p)
       IN  IF manifest.exists /\ theme_mismatch(manifest.doc, local.result)
           THEN /\ proc' = [proc EXCEPT !.savers[p] = NotSaving]
                /\ rlast' = [op |-> "raised", p |-> p]
           ELSE /\ proc' = AfterStep(p, [local EXCEPT !.loaded = manifest])
                /\ rlast' = [op |-> "load_manifest", p |-> p]
    /\ UNCHANGED <<manifest, runFiles, now, saved, firstTheme>>

\* run_path.write_text(...)
save_run_write_run(p) ==
    /\ NextFileStep(p) = "write_run_file"
    /\ LET local == Saving(p)
       IN  /\ runFiles' = DictSet(runFiles, run_filename(local.result),
                                  run_payload(local.project, local.result, now))
           /\ proc' = AfterStep(p, local)
    /\ rlast' = SavingStep("write_run_file", p)
    /\ UNCHANGED <<manifest, now, saved, firstTheme>>

\* manifest["runs"][seed id] = entry; manifest_path.write_text(...)
save_run_write_manifest(p) ==
    /\ NextFileStep(p) = "write_manifest"
    /\ LET local == Saving(p)
           start == IF local.loaded.exists THEN local.loaded.doc
                    ELSE new_manifest(local.project, local.result)
       IN  /\ manifest' = ManifestOf(with_run(manifest_held(start, manifest), local.result, now))
           /\ proc' = AfterStep(p, local)
    /\ rlast' = SavingStep("write_manifest", p)
    /\ UNCHANGED <<runFiles, now, saved, firstTheme>>

\* the process dies inside save_run: what it wrote stays, the rest is not done
save_run_crash(p) ==
    /\ Saving(p).at > 0
    /\ proc' = [proc EXCEPT !.savers[p] = NotSaving]
    /\ rlast' = [op |-> "crash", p |-> p, before |-> NextFileStep(p), result |-> Saving(p).result]
    /\ UNCHANGED <<manifest, runFiles, now, saved, firstTheme>>

SavingTick ==
    /\ proc.pc = "saving"
    /\ Tick
    /\ UNCHANGED proc

\* CachedOpenAlexService.get_seed on the service that owns cache instance i
instance_get_seed(i) ==
    /\ proc.pc = "caching"
    /\ \E work_id \in InstanceIds :
           LET doc == Load(proc.caches[i], file)
               cached == get_work(doc, work_id)
               work == RemoteWork(work_id, "t1")
               stored == store_work(doc, work)
           IN  IF cached # NoneValue
               THEN /\ proc' = [proc EXCEPT !.caches[i] = Loaded(doc)]
                    /\ rlast' = [op |-> "get_seed", p |-> i, arg |-> work_id, calls |-> 0, pre |-> doc,
                                 onDisk |-> file]
                    /\ UNCHANGED file
               ELSE /\ proc' = [proc EXCEPT !.caches[i] = Loaded(stored)]
                    /\ file' = commit_file(stored, TRUE, file)
                    /\ rlast' = [op |-> "get_seed", p |-> i, arg |-> work_id, calls |-> 1, pre |-> doc,
                                 onDisk |-> file]

-----------------------------------------------------------------------------
(* get_seed over OpenAlexHttpClient.fetch_work                              *)

\* Identifier forms the API accepts for a work, with the work each denotes:
\* the short identifier and the URL the API itself uses as the record's id.
SeedForms ==
    {[text |-> id, denotes |-> id] : id \in {Str(<<"W", "1">>), Str(<<"W", "2">>)}}
        \cup {[text |-> ApiItem(id).id, denotes |-> id] : id \in {Str(<<"W", "1">>)}}

\* the record the API answers GET /works/{work_id} with
WorksEndpoint(form, title) == [ApiItem(form.denotes) EXCEPT !.title = title]

\* OpenAlexHttpClient.fetch_work
fetch_work(form, title) == parse_work(WorksEndpoint(form, title))

SeedHistory == proc.returned

\* CachedOpenAlexService.get_seed(work_id) over the HTTP client
seed_lookup ==
    \E form \in SeedForms :
        LET work_id == form.text
            doc == Load(data, file)
            cached == get_work(doc, work_id)
            asked == [op |-> "get_seed", arg |-> work_id, pre |-> doc,
                      before |-> IF work_id \in DOMAIN SeedHistory
                                 THEN Some(SeedHistory[work_id]) ELSE NoneValue]
        IN  \/ /\ cached # NoneValue
               /\ data' = Loaded(doc)
               /\ last' = asked @@ [calls |-> 0, client |-> "none", out |-> Returned(cached[1])]
               /\ proc' = [proc EXCEPT !.returned = DictSet(@, work_id, cached[1])]
               /\ UNCHANGED <<file, dirty>>
            \/ /\ cached = NoneValue
               /\ \E t \in Titles :
                     LET work == fetch_work(form, t)
                         stored == store_work(doc, work)
                     IN  /\ data' = Loaded(stored)
                         /\ file' = commit_file(stored, TRUE, file)
                         /\ dirty' = FALSE
                         /\ last' = asked @@ [calls |-> 1, client |-> "answered",
                                              out |-> Returned(work)]
                         /\ proc' = [proc EXCEPT !.returned = DictSet(@, work_id, work)]
            \/ /\ cached = NoneValue
               /\ data' = Loaded(doc)
               /\ last' = asked @@ [calls |-> 1, client |-> "failed", out |-> Raised]
               /\ UNCHANGED <<file, dirty, proc>>

-----------------------------------------------------------------------------
(* SemanticScholarOrchestrator                                              *)

MaxIterations == 3  \* largest max_iterations configured

StrongLabel == Str(<<"S", "t", "r", "o", "n", "g">>)
Labels == {StrongLabel, Partial}

Paper1 == PaperRecord("semantic_scholar", Some("p1"), "Paper 1")
Paper2 == PaperRecord("semantic_scholar", Some("p2"), "Paper 2")

\* what one query-agent run finds, and what one harvest returns
FoundLists == {<<>>, <<Paper1>>, <<Paper2>>, <<Paper1, Paper2>>,
               <<PaperRecord("semantic_scholar", NoneValue, "Untitled")>>}
RelatedLists == {<<>>, <<Paper2>>}

InitialQueries == {Str(<<" ", "q">>), Str(<<"r">>)}
RefinedQueries == {Str(<<"Q", " ">>), Str(<<"q">>), Str(<<"r">>), Str(<<" ">>), <<>>}

ClassificationResult(paper, label) == [paper |-> paper, label |-> label]

\* ClassificationResult.is_strong
is_strong(result) == Lower(result.label) = Str(<<"s", "t", "r", "o", "n", "g">>)

RECURSIVE filter_new_papers(_, _)
\* _filter_new_papers: the papers not seen before, and the seen set it leaves
filter_new_papers(papers, seen_ids) ==
    IF papers = <<>> THEN [fresh |-> <<>>, seen |-> seen_ids]
    ELSE LET identifier == Head(papers).paper_id
         IN  IF Truthy(identifier) /\ identifier \in seen_ids
             THEN filter_new_papers(Tail(papers), seen_ids)
             ELSE LET rest == filter_new_papers(Tail(papers),
                                  IF Truthy(identifier) THEN seen_ids \cup {identifier}
                                  ELSE seen_ids)
                  IN  [fresh |-> <<Head(papers)>> \o rest.fresh, seen |-> rest.seen]

\* _classify_papers against a classifier that answers labels[i] for the i-th paper
classify_papers(papers, labels) ==
    [i \in DOMAIN papers |-> ClassificationResult(papers[i], labels[i])]

NotStrong(result) == ~is_strong(result)

\* _build_feedback: one line per result that is not strong ("" when none)
build_feedback(results) ==
    LET weak == SelectSeq(results, NotStrong)
    IN  [i \in DOMAIN weak |-> [title |-> weak[i].paper.title, label |-> weak[i].label]]

any_strong(results) == \E i \in DOMAIN results : is_strong(results[i])

\* a comparison of the refined query that tells upper from lower case
query_differs(refined_query, query) == refined_query # <<>> /\ refined_query # query

\* the test that lets run go on with the refined query
query_is_new(refined_query, query) ==
    refined_query # <<>> /\ Lower(refined_query) # Lower(query)

OrchestratorArgs ==
    [op : {"orchestrate"}, initial_query : InitialQueries, max_iterations : -1..MaxIterations,
     harvester : BOOLEAN]

\* run, up to the loop
orchestrator_started(args) ==
    [pc |-> "loop", iteration |-> 1, query |-> Strip(args.initial_query, Whitespace),
     feedback |-> NoneValue, seen_paper_ids |-> {}, runs |-> 0, final |-> NoneValue]

\* the query agent raises inside an iteration
run_agent_fails ==
    /\ call.op = "orchestrate"
    /\ proc.pc = "loop" /\ proc.iteration <= call.max_iterations
    /\ proc' = [proc EXCEPT !.pc = "done",
                            !.runs = @ + 1,
                            !.final = Some([query |-> proc.query, raised |-> TRUE,
                                            results |-> <<>>, refined |-> NoneValue])]
    /\ ret' = Done(Raised)
    /\ UNCHANGED call

\* one pass of the loop body
run_iteration ==
    /\ call.op = "orchestrate"
    /\ proc.pc = "loop" /\ proc.iteration <= call.max_iterations
    /\ \E papers \in FoundLists, related \in RelatedLists, refined \in RefinedQueries :
          LET new_papers == filter_new_papers(papers, proc.seen_paper_ids)
              harvested == IF call.harvester /\ new_papers.fresh # <<>>
                           THEN filter_new_papers(related, new_papers.seen)
                           ELSE [fresh |-> <<>>, seen |-> new_papers.seen]
          IN  \E labels \in [DOMAIN new_papers.fresh -> Labels],
                 derived_labels \in [DOMAIN harvested.fresh -> Labels] :
                 LET classifications == classify_papers(new_papers.fresh, labels)
                     derived_results == classify_papers(harvested.fresh, derived_labels)
                     gathered == classifications \o derived_results
                     feedback == build_feedback(gathered)
                     refined_query == Strip(refined, Whitespace)
                     asked == ~any_strong(gathered) /\ feedback # <<>>
                     goes_on == asked /\ query_is_new(refined_query, proc.query)
                     entry == [query |-> proc.query, raised |-> FALSE, results |-> gathered,
                               refined |-> IF asked THEN Some(refined) ELSE NoneValue]
                 IN  proc' = [pc |-> IF goes_on THEN "loop" ELSE "break",
                              iteration |-> IF goes_on THEN proc.iteration + 1
                                            ELSE proc.iteration,
                              query |-> IF goes_on THEN refined_query ELSE proc.query,
                              feedback |-> IF any_strong(gathered) THEN proc.feedback
                                           ELSE Some(feedback),
                              seen_paper_ids |-> harvested.seen,
                              runs |-> proc.runs + 1,
                              final |-> Some(entry)]
    /\ UNCHANGED <<call, ret>>

\* the loop is left by break or by exhausting range(1, max_iterations + 1)
run_finished ==
    /\ call.op = "orchestrate"
    /\ proc.pc = "break" \/ (proc.pc = "loop" /\ proc.iteration > call.max_iterations)
    /\ proc' = [proc EXCEPT !.pc = "done"]
    /\ ret' = Done(Returned(NoneValue))
    /\ UNCHANGED call

-----------------------------------------------------------------------------
(* Specifications                                                           *)

CacheIdle ==
    /\ file = NoFile
    /\ data = NotLoaded
    /\ dirty = FALSE
    /\ last = NoCall

\* The cached service over a cache file left by earlier sessions.
InitCache ==
    /\ file \in {NoFile} \cup {FileOf(doc) : doc \in CacheDocs}
    /\ data = NotLoaded
    /\ dirty = FALSE
    /\ last = NoCall
    /\ InitRepo /\ KeysIdle /\ GraphIdle /\ CallIdle /\ DbIdle

NextCache == get_seed \/ get_references \/ get_citations \/ commit

SpecCache == InitCache /\ [][NextCache]_vars

\* The project repository under a fresh root directory.
NextRepo ==
    \/ save_run /\ UNCHANGED <<cacheVars, keyVars, graphVars, callVars, dbVars>>
    \/ Tick /\ UNCHANGED <<cacheVars, keyVars, graphVars, callVars, dbVars>>

InitProject == CacheIdle /\ InitRepo /\ KeysIdle /\ GraphIdle /\ CallIdle /\ DbIdle

SpecRepo == InitProject /\ [][NextRepo]_vars

\* The key generator applied to a list of works.
InitKeys ==
    /\ CacheIdle /\ InitRepo /\ GraphIdle /\ CallIdle /\ DbIdle
    /\ kInput \in KeyInputs /\ kOut = NotRun

NextKeys == assign_keys_call /\ UNCHANGED <<cacheVars, repoVars, graphVars, callVars, dbVars>>

SpecKeys == InitKeys /\ [][NextKeys]_vars

\* The graph builder applied to a seed, decisions and keys.
InitGraph ==
    /\ CacheIdle /\ InitRepo /\ KeysIdle /\ CallIdle /\ DbIdle
    /\ gInput \in GraphInputs /\ gOut = NotRun

NextGraph == build_call /\ UNCHANGED <<cacheVars, repoVars, keyVars, callVars, dbVars>>

SpecGraph == InitGraph /\ [][NextGraph]_vars

\* merged_graph applied to loaded project data.
InitMerge ==
    /\ CacheIdle /\ InitRepo /\ KeysIdle /\ GraphIdle /\ DbIdle
    /\ \E name \in ProjectNames, results \in SeqsUpTo(MergeRuns, MaxRuns) :
            call = MergeInputs(name, results)
    /\ ret = NotRun /\ proc = NoProc

NextMerge == merged_graph_call /\ UNCHANGED <<cacheVars, repoVars, keyVars, graphVars, dbVars>>

SpecMerge == InitMerge /\ [][NextMerge]_vars

\* The run database of the Semantic Scholar agent.
InitDatabase == CacheIdle /\ InitRepo /\ KeysIdle /\ GraphIdle /\ CallIdle /\ InitDb

NextDb ==
    \/ log_run /\ UNCHANGED <<cacheVars, repoVars, keyVars, graphVars, callVars>>
    \/ store_classification /\ UNCHANGED <<cacheVars, repoVars, keyVars, graphVars, callVars>>
    \/ last_runs_call /\ UNCHANGED <<cacheVars, repoVars, keyVars, graphVars, callVars>>

SpecDb == InitDatabase /\ [][NextDb]_vars

\* load_project applied to a project directory left by save_run, some run
\* files of which may have been removed since.
InitLoad ==
    /\ CacheIdle /\ InitRepo /\ KeysIdle /\ GraphIdle /\ DbIdle
    /\ \E project \in ProjectNames, results \in SeqsUpTo(LoadResults, MaxSaved),
          kept \in SUBSET RunFileNames : call = LoadInputs(project, results, kept)
    /\ ret = NotRun /\ proc = NoProc

NextLoad == load_project_call /\ UNCHANGED <<cacheVars, repoVars, keyVars, graphVars, dbVars>>

SpecLoad == InitLoad /\ [][NextLoad]_vars

\* The heuristic relevance agent applied to a list of works.
InitEvaluate ==
    /\ CacheIdle /\ InitRepo /\ KeysIdle /\ GraphIdle /\ DbIdle
    /\ call \in EvaluateInputs /\ ret = NotRun /\ proc = NoProc

NextEvaluate == evaluate_call /\ UNCHANGED <<cacheVars, repoVars, keyVars, graphVars, dbVars>>

SpecEvaluate == InitEvaluate /\ [][NextEvaluate]_vars

\* The LLM relevance agent applied to a list of works, for every course the
\* requests to the LLM endpoint can take.
InitLlm ==
    /\ CacheIdle /\ InitRepo /\ KeysIdle /\ GraphIdle /\ DbIdle
    /\ \E n \in RetryConfigs : call \in LlmInputs(n)
    /\ ret = NotRun /\ proc = NoProc

NextLlm == llm_evaluate_call /\ UNCHANGED <<cacheVars, repoVars, keyVars, graphVars, dbVars>>

SpecLlm == InitLlm /\ [][NextLlm]_vars

\* fetch_citations against a server that pages its results.
InitCitations ==
    /\ CacheIdle /\ InitRepo /\ KeysIdle /\ GraphIdle /\ DbIdle
    /\ \E m \in 1..MaxPages : \E shape \in PageShapes(m), cap \in Caps :
            /\ ~shape[m].next_cursor
            /\ call = CitationInputs(shape, cap)
    /\ ret = NotRun /\ proc = NoProc

NextCitations == fetch_citations_call /\ UNCHANGED <<cacheVars, repoVars, keyVars, graphVars, dbVars>>

SpecCitations == InitCitations /\ [][NextCitations]_vars

\* fetch_references against a server that knows some of the referenced works.
InitReferences ==
    /\ CacheIdle /\ InitRepo /\ KeysIdle /\ GraphIdle /\ DbIdle
    /\ \E size \in BulkPageSizes : call \in ReferenceInputs(size)
    /\ ret = NotRun /\ proc = NoProc

NextReferences == fetch_references_call /\ UNCHANGED <<cacheVars, repoVars, keyVars, graphVars, dbVars>>

SpecReferences == InitReferences /\ [][NextReferences]_vars

\* One run of the orchestrator over the answers of the service.
InitRun ==
    /\ CacheIdle /\ InitRepo /\ KeysIdle /\ GraphIdle /\ DbIdle
    /\ call \in RunInputs /\ ret = NotRun /\ proc = NoProc

NextRun == run_call /\ UNCHANGED <<cacheVars, repoVars, keyVars, graphVars, dbVars>>

SpecRun == InitRun /\ [][NextRun]_vars

\* One run of the orchestrator with an agent whose context hook may fail.
InitContext ==
    /\ CacheIdle /\ InitRepo /\ KeysIdle /\ GraphIdle /\ DbIdle
    /\ call \in ContextInputs /\ ret = NotRun /\ proc = NoProc

NextContext == run_with_context_call /\ UNCHANGED <<cacheVars, repoVars, keyVars, graphVars, dbVars>>

SpecContext == InitContext /\ [][NextContext]_vars

\* One call of harvest against a client with fixed answers.
InitHarvest ==
    /\ CacheIdle /\ InitRepo /\ KeysIdle /\ GraphIdle /\ DbIdle
    /\ call \in HarvestInputs /\ ret = NotRun /\ proc = NoProc

NextHarvest == harvest_call /\ UNCHANGED <<cacheVars, repoVars, keyVars, graphVars, dbVars>>

SpecHarvest == InitHarvest /\ [][NextHarvest]_vars

\* One unauthenticated search against a bulk endpoint that answers as it likes;
\* the client keeps running until it returns or raises.
InitSearch ==
    /\ CacheIdle /\ InitRepo /\ KeysIdle /\ GraphIdle /\ DbIdle
    /\ call \in SearchArgs /\ ret = NotRun /\ proc = search_started(call)

NextSearch ==
    \/ search_request_fails /\ UNCHANGED <<cacheVars, repoVars, keyVars, graphVars, dbVars>>
    \/ search_request_page /\ UNCHANGED <<cacheVars, repoVars, keyVars, graphVars, dbVars>>
    \/ search_return /\ UNCHANGED <<cacheVars, repoVars, keyVars, graphVars, dbVars>>

SpecSearch == InitSearch /\ [][NextSearch]_vars /\ WF_vars(NextSearch)

\* Two processes about to save into one project, or two cache instances
\* about to work on one cache file.
InitSaving ==
    /\ CacheIdle /\ InitRepo /\ KeysIdle /\ GraphIdle /\ DbIdle
    /\ call = NoArgs /\ ret = NotRun
    /\ \E scene \in {"saving", "caching"} :
          proc = [pc |-> scene,
                  savers |-> [p \in Savers |-> NotSaving],
                  started |-> 0,
                  finished |-> [p \in Savers |-> {}],
                  caches |-> [i \in Instances |-> NotLoaded]]

\* Two processes saving into one project, interleaved at file granularity and
\* crashing anywhere, next to two cache instances working on one cache file.
NextSaving ==
    \/ \E p \in Savers : save_run_begin(p) /\ UNCHANGED <<cacheVars, keyVars, graphVars, call, ret, dbVars>>
    \/ \E p \in Savers : save_run_load(p) /\ UNCHANGED <<cacheVars, keyVars, graphVars, call, ret, dbVars>>
    \/ \E p \in Savers : save_run_write_run(p) /\ UNCHANGED <<cacheVars, keyVars, graphVars, call, ret, dbVars>>
    \/ \E p \in Savers : save_run_write_manifest(p) /\ UNCHANGED <<cacheVars, keyVars, graphVars, call, ret, dbVars>>
    \/ \E p \in Savers : save_run_crash(p) /\ UNCHANGED <<cacheVars, keyVars, graphVars, call, ret, dbVars>>
    \/ SavingTick /\ UNCHANGED <<cacheVars, keyVars, graphVars, call, ret, dbVars>>
    \/ \E i \in Instances :
          /\ instance_get_seed(i)
          /\ UNCHANGED <<data, dirty, last, manifest, runFiles, now, saved, firstTheme,
                         keyVars, graphVars, call, ret, dbVars>>

SpecSaving == InitSaving /\ [][NextSaving]_vars

\* The cached service over the HTTP client, on a fresh cache file.
InitSeeds ==
    /\ CacheIdle /\ InitRepo /\ KeysIdle /\ GraphIdle /\ DbIdle
    /\ call = NoArgs /\ ret = NotRun
    /\ proc = [pc |-> "seeds", returned |-> EmptyDict]

NextSeeds == seed_lookup /\ UNCHANGED <<repoVars, keyVars, graphVars, call, ret, dbVars>>

SpecSeeds == InitSeeds /\ [][NextSeeds]_vars

\* One run of the Semantic Scholar orchestrator against a query agent, a
\* classifier and a harvester that answer as they like.
InitOrchestrate ==
    /\ CacheIdle /\ InitRepo /\ KeysIdle /\ GraphIdle /\ DbIdle
    /\ call \in OrchestratorArgs /\ ret = NotRun /\ proc = orchestrator_started(call)

NextOrchestrate ==
    \/ run_agent_fails /\ UNCHANGED <<cacheVars, repoVars, keyVars, graphVars, dbVars>>
    \/ run_iteration /\ UNCHANGED <<cacheVars, repoVars, keyVars, graphVars, dbVars>>
    \/ run_finished /\ UNCHANGED <<cacheVars, repoVars, keyVars, graphVars, dbVars>>

SpecOrchestrate == InitOrchestrate /\ [][NextOrchestrate]_vars /\ WF_vars(NextOrchestrate)

-----------------------------------------------------------------------------
(* Claims about the cached service (SpecCache)                             *)

RelationOps == {"get_references", "get_citations"}
RelationOf(op) == IF op = "get_references" THEN "references" ELSE "citations"

LastIsRelationCall == last.op \in RelationOps
LastHadList == last.arg \in DOMAIN last.pre[RelationOf(last.op)]
LastPreIds == get_relation_ids(last.pre, RelationOf(last.op), last.arg)
LastPreResolves == \A i \in DOMAIN LastPreIds : LastPreIds[i] \in DOMAIN last.pre.works

\* C1: whenever an id-list for the seed exists in the cache (of any length,
\* a stored empty list included) and every id of it resolves to a cached
\* work, get_references / get_citations returns the cached works in id-list
\* order and makes no client call.
C1_ReuseWheneverResolvable ==
    (LastIsRelationCall /\ LastHadList /\ LastPreResolves)
        => /\ last.calls = 0
           /\ ~last.out.raised
           /\ last.out.value = [i \in DOMAIN LastPreIds |-> from_dict(last.pre.works[LastPreIds[i]])]

\* C2: when at least one id of the cached id-list does not resolve to a
\* cached work, the client is called exactly once, the call fails only if
\* the client fails, and after a client answer the cached id-list is the
\* ids of the fetched works in order, every fetched work is filed under its
\* id, and the cache file holds the same document.
C2_RefetchOnMissingWork ==
    (LastIsRelationCall /\ ~LastPreResolves)
        => /\ last.calls = 1
           /\ last.out.raised <=> (last.client = "failed")
           /\ ~last.out.raised =>
                LET works == last.out.value
                    doc == data.doc
                IN  /\ get_relation_ids(doc, RelationOf(last.op), last.arg)
                          = [i \in DOMAIN works |-> works[i].openalex_id]
                    /\ \A i \in DOMAIN works :
                          get_work(doc, works[i].openalex_id) = Some(works[i])
                    /\ CacheHit(doc, RelationOf(last.op), last.arg) \/ works = <<>>
                    /\ file = FileOf(doc)

\* C2 witness: a refetch over an inconsistent id-list that brought works back.
C2_Witness ==
    /\ LastIsRelationCall
    /\ ~LastPreResolves
    /\ ~last.out.raised
    /\ Len(last.out.value) = 2
    /\ last.out.value[1].openalex_id # last.out.value[2].openalex_id

-----------------------------------------------------------------------------
(* Claims about the project repository (SpecRepo)                          *)

LastSave == rlast.op = "save_run"
LastSeed == rlast.result.seed.openalex_id
EntryFile(entry) == SubSeq(entry.run_file, Len(RunsPrefix) + 1, Len(entry.run_file))
PayloadHolds(payload, result) ==
    \A k \in DOMAIN result_to_dict(result) : payload[k] = result_to_dict(result)[k]

\* C3: save_run on a project whose manifest exists with a stored theme
\* different from result.theme raises and writes nothing: the manifest and
\* every run file are unchanged.
C3_ThemeMismatchRejected ==
    [][(rlast'.op = "save_run" /\ manifest.exists
            /\ rlast'.pre.manifest = manifest
            /\ manifest.doc.theme # rlast'.result.theme)
        => (rlast'.raised /\ manifest' = manifest /\ runFiles' = runFiles)]_vars

\* C4: after any sequence of save_run calls under one project, with any
\* theme strings (the empty string included), the manifest's theme is the
\* theme of the first successful run and every persisted run carries
\* exactly that theme.
C4_OneThemePerProject ==
    manifest.exists
        => /\ firstTheme = Some(manifest.doc.theme)
           /\ \A f \in DOMAIN runFiles : runFiles[f].theme = manifest.doc.theme

\* C5: saving a seed id that was already saved under the project, with the
\* project's theme, succeeds and overwrites: manifest.runs has as many
\* entries as before, no run file is added, and the run file named by the
\* seed's manifest entry holds the second result.
C5_ResaveOverwrites ==
    (LastSave /\ rlast.savedBefore /\ rlast.pre.manifest.doc.theme = rlast.result.theme)
        => /\ ~rlast.raised
           /\ Cardinality(DOMAIN manifest.doc.runs)
                 = Cardinality(DOMAIN rlast.pre.manifest.doc.runs)
           /\ DOMAIN runFiles = rlast.pre.fileNames
           /\ LastSeed \in DOMAIN manifest.doc.runs
           /\ EntryFile(manifest.doc.runs[LastSeed]) \in DOMAIN runFiles
           /\ PayloadHolds(runFiles[EntryFile(manifest.doc.runs[LastSeed])], rlast.result)

\* C5 witness: a second save of a seed, with the project's theme, in a project with other runs.
C5_Witness ==
    /\ LastSave
    /\ rlast.savedBefore
    /\ ~rlast.raised
    /\ rlast.pre.manifest.doc.theme = rlast.result.theme
    /\ Cardinality(DOMAIN manifest.doc.runs) >= 2

\* C6: the key set of manifest.runs is the set of seed ids saved so far, each
\* entry's run_file is "runs/" followed by the file name of the path save_run
\* returned for that seed, and a save_run never removes an entry.
C6_ManifestIndexesSavedSeeds ==
    /\ ~manifest.exists => saved = EmptyDict
    /\ manifest.exists =>
          /\ DOMAIN manifest.doc.runs = DOMAIN saved
          /\ \A s \in DOMAIN saved :
                /\ manifest.doc.runs[s].run_file = RunsPrefix \o PathName(saved[s])
                /\ manifest.doc.runs[s].seed_id = s
    /\ (LastSave /\ rlast.pre.manifest.exists)
          => DOMAIN rlast.pre.manifest.doc.runs \subseteq DOMAIN manifest.doc.runs

\* C6 witness: three seeds saved, the last one into a manifest that already had entries.
C6_Witness ==
    /\ LastSave
    /\ ~rlast.raised
    /\ manifest.exists
    /\ Cardinality(DOMAIN manifest.doc.runs) = 3
    /\ Cardinality(DOMAIN rlast.pre.manifest.doc.runs) = 2

-----------------------------------------------------------------------------
(* Claims about the key generator (SpecKeys)                               *)

LetterValue(c) == CHOOSE i \in DOMAIN LowerLetters : LowerLetters[i] = c

RECURSIVE Decode26(_)
\* the number a word over a..z denotes in bijective base 26 (a = 1, ..., z = 26)
Decode26(s) ==
    IF s = <<>> THEN 0
    ELSE 26 * Decode26(SubSeq(s, 1, Len(s) - 1)) + LetterValue(s[Len(s)])

KeyTrace == kOut.value.trace
OccurrenceNo(i) == Cardinality({j \in 1..i : KeyTrace[j].base = KeyTrace[i].base})
KeyTail(i) == SubSeq(KeyTrace[i].key, Len(KeyTrace[i].base) + 1, Len(KeyTrace[i].key))

\* C7: in input order, the first work with a given base key is given the
\* bare base key and the n-th work with that base key (n >= 2) the base key
\* followed by the bijective base-26 lowercase numeral of n-1; the returned
\* mapping holds, for every work id, the key given to its last occurrence.
C7_CollisionSuffixes ==
    kOut.done =>
        /\ Len(KeyTrace) = Len(kInput)
        /\ \A i \in DOMAIN KeyTrace :
              /\ Len(KeyTrace[i].key) >= Len(KeyTrace[i].base)
              /\ SubSeq(KeyTrace[i].key, 1, Len(KeyTrace[i].base)) = KeyTrace[i].base
              /\ \A k \in DOMAIN KeyTail(i) : KeyTail(i)[k] \in Range(LowerLetters)
              /\ Decode26(KeyTail(i)) = OccurrenceNo(i) - 1
        /\ DOMAIN kOut.value.keys = {kInput[i].openalex_id : i \in DOMAIN kInput}
        /\ \A i \in DOMAIN kInput :
              (\A j \in DOMAIN kInput : j > i => kInput[j].openalex_id # kInput[i].openalex_id)
                  => kOut.value.keys[kInput[i].openalex_id] = KeyTrace[i].key

\* C7 witness: a base key shared by so many works that a two-letter suffix was given,
\* after the suffix z.
C7_Witness ==
    /\ kOut.done
    /\ \E i, j \in DOMAIN KeyTrace :
          /\ KeyTail(i) = <<"z">>
          /\ KeyTail(j) = <<"a", "b">>
          /\ KeyTrace[1].key = KeyTrace[1].base

\* the word after the last blank of a name, reduced to its letters, capitalized
SurnameOf(name) ==
    LET filled == {i \in DOMAIN name : name[i] # " "}
    IN  IF filled = {} THEN <<>>
        ELSE LET end == CHOOSE i \in filled : \A j \in filled : j <= i
                 start == CHOOSE i \in 1..end :
                              /\ \A j \in i..end : name[j] # " "
                              /\ i = 1 \/ name[i - 1] = " "
                 letters == SelectSeq(NfkdText(SubSeq(name, start, end)), IsAlpha)
             IN  [i \in DOMAIN letters |-> IF i = 1 THEN UpperChar(letters[i]) ELSE letters[i]]

YearText(work) ==
    IF work.publication_year = NoneValue THEN <<"0", "0", "0", "0">>
    ELSE Digits(work.publication_year[1])

IdentifierKey(work) ==
    LET kept == SelectSeq(work.openalex_id, LAMBDA c : c \in AsciiAlnum)
    IN  IF kept = <<>> THEN <<"W", "o", "r", "k">> ELSE kept

\* the base key read off the author at position pos(authors) of the author list
BaseKeyFromAuthor(work, pos(_)) ==
    IF work.authors = <<>> \/ SurnameOf(work.authors[pos(work.authors)]) = <<>>
    THEN IdentifierKey(work)
    ELSE SurnameOf(work.authors[pos(work.authors)]) \o YearText(work)

FirstPos(authors) == 1
LastPos(authors) == Len(authors)

\* C8 (as claimed): the base key is the capitalized surname of the last
\* author of the author list followed by the year (0000 when absent), or,
\* without a usable name, the identifier reduced to letters and digits, or Work.
C8_BaseKeyFromLastAuthor ==
    kOut.done =>
        \A i \in DOMAIN KeyTrace : KeyTrace[i].base = BaseKeyFromAuthor(kInput[i], LastPos)

\* C8 (amended): the base key is the capitalized surname of the first author
\* of the author list followed by the year (0000 when absent); when that
\* name yields no letters or there is no author, it is the identifier
\* reduced to letters and digits, or Work.
C8_BaseKeyFromFirstAuthor ==
    kOut.done =>
        \A i \in DOMAIN KeyTrace : KeyTrace[i].base = BaseKeyFromAuthor(kInput[i], FirstPos)

\* C8 witness: a work with two authors of different surnames was keyed, and a work
\* whose first author has no usable name although a later author has one.
C8_Witness ==
    /\ kOut.done
    /\ \E i \in DOMAIN kInput :
          /\ Len(kInput[i].authors) = 2
          /\ SurnameOf(kInput[i].authors[1]) # <<>>
          /\ SurnameOf(kInput[i].authors[2]) # <<>>
          /\ SurnameOf(kInput[i].authors[1]) # SurnameOf(kInput[i].authors[2])
    /\ \E i \in DOMAIN kInput :
          /\ Len(kInput[i].authors) = 2
          /\ SurnameOf(kInput[i].authors[1]) = <<>>
          /\ SurnameOf(kInput[i].authors[2]) # <<>>

-----------------------------------------------------------------------------
(* Claims about the graph builder (SpecGraph)                              *)

GivenSeedKey == gInput.keys[gInput.seed.openalex_id]
GivenDecisions == gInput.decisions
BuiltEdges == gOut.value.edges

\* the pair a decision stands for: seed -> work for a reference, work -> seed for a citation
ClaimedEdge(d) ==
    IF d.relation = "citation" THEN <<d.graph_key, GivenSeedKey>> ELSE <<GivenSeedKey, d.graph_key>>

\* C9: build produces the edge (seed_key, graph_key) for every reference
\* decision, the edge (graph_key, seed_key) for every citation decision, and
\* no other edge.
C9_EdgeDirections ==
    gOut.done =>
        Range(BuiltEdges) =
            {<<GivenSeedKey, GivenDecisions[i].graph_key>> :
                i \in {k \in DOMAIN GivenDecisions : GivenDecisions[k].relation = "reference"}}
            \cup
            {<<GivenDecisions[i].graph_key, GivenSeedKey>> :
                i \in {k \in DOMAIN GivenDecisions : GivenDecisions[k].relation = "citation"}}

\* C9 witness: a graph built from a reference and a citation of works other than the seed.
C9_Witness ==
    /\ gOut.done
    /\ \E i, j \in DOMAIN GivenDecisions :
          /\ GivenDecisions[i].relation = "reference"
          /\ GivenDecisions[j].relation = "citation"
          /\ GivenDecisions[i].graph_key # GivenSeedKey
          /\ GivenDecisions[j].graph_key # GivenSeedKey

FirstSeenAt(e) ==
    CHOOSE i \in DOMAIN GivenDecisions :
        /\ ClaimedEdge(GivenDecisions[i]) = e
        /\ \A j \in 1..(i - 1) : ClaimedEdge(GivenDecisions[j]) # e

\* C10: no ordered pair occurs twice in the built edges, every pair of a
\* decision occurs, and the pairs are listed in the order in which each
\* first occurs among the decisions.
C10_EdgesUniqueInFirstSeenOrder ==
    gOut.done =>
        /\ \A i, j \in DOMAIN BuiltEdges : i # j => BuiltEdges[i] # BuiltEdges[j]
        /\ Range(BuiltEdges) = {ClaimedEdge(GivenDecisions[i]) : i \in DOMAIN GivenDecisions}
        /\ \A i, j \in DOMAIN BuiltEdges :
              i < j => FirstSeenAt(BuiltEdges[i]) < FirstSeenAt(BuiltEdges[j])

\* C10 witness: the first pair came again after a different pair and was dropped.
C10_Witness ==
    /\ gOut.done
    /\ Len(GivenDecisions) = 3
    /\ ClaimedEdge(GivenDecisions[1]) = ClaimedEdge(GivenDecisions[3])
    /\ ClaimedEdge(GivenDecisions[1]) # ClaimedEdge(GivenDecisions[2])
    /\ Len(BuiltEdges) = 2

-----------------------------------------------------------------------------
(* Claims about merged_graph (SpecMerge)                                    *)

MergeReturned == call.op = "merged_graph" /\ ret.done
LoadedGraphs == [i \in DOMAIN call.project.results |-> call.project.results[i].graph]
Merged == ret.value
ProjectEdges == all_edges(LoadedGraphs)

FirstRunWith(k) ==
    CHOOSE i \in DOMAIN LoadedGraphs :
        /\ k \in DOMAIN LoadedGraphs[i].nodes
        /\ \A j \in 1..(i - 1) : k \notin DOMAIN LoadedGraphs[j].nodes

FirstEdgeAt(e) ==
    CHOOSE i \in DOMAIN ProjectEdges :
        /\ ProjectEdges[i] = e
        /\ \A j \in 1..(i - 1) : ProjectEdges[j] # e

\* nodes: union, first run wins; edges: each distinct pair once, in the order
\* of first occurrence across the project; seed_key: the project slug
MergedAsUnion ==
    /\ Merged.seed_key = call.project.slug
    /\ DOMAIN Merged.nodes = UNION {DOMAIN LoadedGraphs[i].nodes : i \in DOMAIN LoadedGraphs}
    /\ \A k \in DOMAIN Merged.nodes : Merged.nodes[k] = LoadedGraphs[FirstRunWith(k)].nodes[k]
    /\ Range(Merged.edges) = Range(ProjectEdges)
    /\ \A i, j \in DOMAIN Merged.edges :
          i < j => FirstEdgeAt(Merged.edges[i]) < FirstEdgeAt(Merged.edges[j])

TwoDisjointRuns ==
    /\ Len(LoadedGraphs) = 2
    /\ DOMAIN LoadedGraphs[1].nodes \cap DOMAIN LoadedGraphs[2].nodes = {}
    /\ Len(LoadedGraphs[1].edges) = 1
    /\ Len(LoadedGraphs[2].edges) = 1

NodeCount(g) == Cardinality(DOMAIN g.nodes)

-----------------------------------------------------------------------------
(* Claims about load_project (SpecLoad)                                     *)

LoadReturned == call.op = "load_project" /\ ret.done
LoadedManifest == call.dir.manifest.doc
EntryFileName(seed_id) ==
    LET rel == LoadedManifest.runs[seed_id].run_file
    IN  SubSeq(rel, Len(RunsPrefix) + 1, Len(rel))
EntryHasFile(seed_id) == EntryFileName(seed_id) \in DOMAIN call.dir.files
EntriesWithFile == SelectSeq(call.dir.order, EntryHasFile)

\* C12: on an existing manifest load_project does not fail when a referenced
\* run file is missing; it returns exactly the results of the entries whose
\* run file exists, and its runs mapping holds the path of every manifest
\* entry, those with a missing file included.
C12_MissingRunFilesSkipped ==
    (LoadReturned /\ call.dir.manifest.exists) =>
        /\ ~ret.value.raised
        /\ LET project == ret.value.value
           IN  /\ Len(project.results) = Len(EntriesWithFile)
               /\ \A i \in DOMAIN EntriesWithFile :
                     project.results[i] =
                        result_from_dict(call.dir.files[EntryFileName(EntriesWithFile[i])])
               /\ DOMAIN project.runs = DOMAIN LoadedManifest.runs
               /\ \A s \in DOMAIN LoadedManifest.runs :
                     project.runs[s] = <<slugify(call.project), Str(<<"r", "u", "n", "s">>),
                                         EntryFileName(s)>>

\* a manifest with an entry whose file is missing and an entry whose file exists
C12_Witness ==
    /\ LoadReturned
    /\ call.dir.manifest.exists
    /\ \E s \in DOMAIN LoadedManifest.runs : ~EntryHasFile(s)
    /\ \E s \in DOMAIN LoadedManifest.runs : EntryHasFile(s)
    /\ ~ret.value.raised
    /\ Len(ret.value.value.results) < Cardinality(DOMAIN LoadedManifest.runs)

-----------------------------------------------------------------------------
(* Claims about SimpleThemeRelevanceAgent (SpecEvaluate)                    *)

EvaluateReturned == call.op = "evaluate" /\ ret.done
ThemeTokens == Range(extract_tokens(call.theme))
FieldOrder == <<"title", "abstract", "primary_topic">>
FieldText(work, n) ==
    IF n = 1 THEN work.title
    ELSE IF n = 2 THEN OrEmpty(work.abstract) ELSE OrEmpty(work.primary_topic)
FieldHits(work, n) == Range(extract_tokens(FieldText(work, n))) \cap ThemeTokens
FirstHitField(work, n) == FieldHits(work, n) # {} /\ \A m \in 1..(n - 1) : FieldHits(work, m) = {}

\* C13: with no theme token every work is accepted; otherwise title, abstract
\* and primary_topic are scanned in that order and the work is accepted on the
\* first field holding a theme token, the justification naming a matched
\* token and that field; a work none of whose fields holds a theme token is
\* rejected with a justification listing all theme tokens.
C13_HeuristicDecision ==
    EvaluateReturned =>
        /\ Len(ret.value) = Len(call.works)
        /\ \A i \in DOMAIN call.works :
              LET work == call.works[i]
                  d == ret.value[i]
              IN  /\ d.work = work
                  /\ ThemeTokens = {} => d.verdict = "accepted"
                  /\ \A n \in 1..3 :
                        (ThemeTokens # {} /\ FirstHitField(work, n)) =>
                            /\ d.verdict = "accepted"
                            /\ d.justification.field_name = FieldOrder[n]
                            /\ d.justification.keyword \in FieldHits(work, n)
                  /\ (ThemeTokens # {} /\ \A n \in 1..3 : FieldHits(work, n) = {}) =>
                            /\ d.verdict = "rejected"
                            /\ Range(d.justification.keywords) = ThemeTokens

\* one call that accepts a work on its abstract although its primary topic
\* matches too, and rejects a work whose title only contains a token as a
\* part of a longer word
C13_Witness ==
    /\ EvaluateReturned
    /\ Cardinality(ThemeTokens) = 2
    /\ \E i \in DOMAIN call.works :
          /\ FieldHits(call.works[i], 1) = {}
          /\ FieldHits(call.works[i], 2) # {}
          /\ FieldHits(call.works[i], 3) # {}
          /\ ret.value[i].verdict = "accepted"
    /\ \E i \in DOMAIN call.works :
          /\ call.works[i].title = Str(<<"a", "i", "r">>)
          /\ ret.value[i].verdict = "rejected"

-----------------------------------------------------------------------------
(* Claims about LLMThemeRelevanceAgent (SpecLlm)                            *)

LlmReturned == call.op = "llm_evaluate" /\ ret.done

\* a reply that cannot be turned into a verdict: failed request, content that
\* is not JSON, verdict outside {accepted, rejected}, blank justification
Unusable(reply) ==
    \/ reply.status = "failed"
    \/ reply.json = NoneValue
    \/ LET v == Strip(reply.json[1].verdict, Whitespace)
       IN  [i \in DOMAIN v |-> LowerChar(v[i])] \notin {Accepted, Rejected}
    \/ Strip(reply.json[1].justification, Whitespace) = <<>>

RepliesAbout(i) == call.replies[call.works[i].openalex_id]
EveryAttemptFails(i) == \A n \in DOMAIN RepliesAbout(i) : Unusable(RepliesAbout(i)[n])

HeuristicVerdict(work) == score_work(work, prepare_theme(call.theme)).verdict

\* C14: evaluate returns one decision per input work, in input order, whatever
\* the LLM requests do; when every attempt for a work fails the decision has
\* the heuristic verdict of that work and a justification that notes the
\* fallback.
C14_FallbackToHeuristic ==
    LlmReturned =>
        /\ Len(ret.value.decisions) = Len(call.works)
        /\ \A i \in DOMAIN call.works :
              LET d == ret.value.decisions[i]
              IN  /\ d.work = call.works[i]
                  /\ d.verdict \in Verdicts
                  /\ EveryAttemptFails(i) =>
                        /\ d.verdict = HeuristicVerdict(call.works[i])
                        /\ d.justification.says =
                              "Fallback to heuristic: {fallback.justification} (LLM error: {exc})"

\* two works, the first classified by the LLM against the heuristic, the
\* second failing on both attempts and taking the heuristic verdict 'accepted'
C14_Witness ==
    /\ LlmReturned
    /\ Len(call.works) = 2
    /\ call.max_retries = 2
    /\ ~EveryAttemptFails(1)
    /\ ret.value.decisions[1].verdict # HeuristicVerdict(call.works[1])
    /\ EveryAttemptFails(2)
    /\ RepliesAbout(2)[1] # RepliesAbout(2)[2]
    /\ ret.value.decisions[2].verdict = "accepted"

\* the number of requests sent for the i-th work
RequestsFor(i) == ret.value.requests[i]

\* C23: for each work the LLM agent sends at least one and at most max_retries
\* requests (the configured limit, clamped to 1 or more), none after the first
\* attempt whose response parses to a valid verdict and justification, and
\* the decision comes from that attempt or, the limit exhausted, from the
\* fallback.
C23_BoundedRetries ==
    LlmReturned =>
        /\ call.max_retries >= 1
        /\ \A i \in DOMAIN call.works :
              LET n == RequestsFor(i)
                  says == ret.value.decisions[i].justification.says
              IN  /\ n >= 1 /\ n <= call.max_retries
                  /\ \A k \in 1..(n - 1) : Unusable(RepliesAbout(i)[k])
                  /\ n < call.max_retries => ~Unusable(RepliesAbout(i)[n])
                  /\ says = "{justification}" <=> ~Unusable(RepliesAbout(i)[n])

\* with a limit of two, one work answered at the first request although the
\* second reply would differ, another answered only at the second request
C23_Witness ==
    /\ LlmReturned
    /\ call.max_retries = 2
    /\ Len(call.works) = 2
    /\ RequestsFor(1) = 1
    /\ RepliesAbout(1)[2] # RepliesAbout(1)[1]
    /\ RequestsFor(2) = 2
    /\ ret.value.decisions[2].justification.says = "{justification}"

-----------------------------------------------------------------------------
(* Claims about OpenAlexHttpClient (SpecCitations, SpecReferences)          *)

CitationsReturned == call.op = "fetch_citations" /\ ret.done
Cap == call.max_citations[1]

RECURSIVE ItemsOnPages(_, _)
\* the number of results on the first n pages
ItemsOnPages(pages, n) == IF n = 0 THEN 0 ELSE Len(pages[n].results) + ItemsOnPages(pages, n - 1)

\* C15: with a cap N configured, whatever integer N is, fetch_citations
\* returns at most N works (none when N is zero or negative) and requests no
\* further page once N items are collected.
C15_CapRespected ==
    (CitationsReturned /\ call.max_citations # NoneValue) =>
        /\ Len(ret.value.works) <= (IF Cap < 0 THEN 0 ELSE Cap)
        /\ ret.value.requests > 1 => ItemsOnPages(call.pages, ret.value.requests - 1) < Cap

ReferencesReturned == call.op = "fetch_references" /\ ret.done

\* the seed's reference list, normalized, without the empty entries
NormalizedRefs ==
    LET kept == SelectSeq(call.raw_refs, LAMBDA value : value # <<>>)
    IN  [i \in DOMAIN kept |-> normalize_work_id(kept[i])]

\* the referenced ids that some batch lookup returned
ReturnedByServer == SelectSeq(NormalizedRefs, LAMBDA id : id \in call.server.found)

\* C16: fetch_references returns the resolved works in the order of the seed's
\* normalized reference list, whatever the order of the batch results, leaving
\* out exactly the ids no lookup returned; a work without references gives the
\* empty list and no batch lookup.
C16_ReferencesInSeedOrder ==
    ReferencesReturned =>
        /\ [i \in DOMAIN ret.value.works |-> ret.value.works[i].openalex_id] = ReturnedByServer
        /\ NormalizedRefs = <<>> => ret.value.works = <<>> /\ ret.value.lookups = 0

\* three references looked up in two batches that come back in reverse order,
\* one of them unknown to the server
C16_Witness ==
    /\ ReferencesReturned
    /\ call.server.reversed
    /\ call.bulk_page_size = 2
    /\ Len(NormalizedRefs) = 3
    /\ Len(ret.value.works) = 2
    /\ ret.value.works[1].openalex_id = NormalizedRefs[1]
    /\ ret.value.works[2].openalex_id = NormalizedRefs[2]
    /\ ret.value.works[1] # ret.value.works[2]
    /\ ret.value.lookups = 2

-----------------------------------------------------------------------------
(* Claims about the orchestrator                                            *)

RunReturned == call.op = "run" /\ ret.done /\ ~ret.value.raised
RunResult == ret.value.value
RunAnswers == call.answers.value

\* what the agent decides on the references and then on the citations
Produced ==
    evaluate(RunAnswers.references, call.theme, "reference")
        \o evaluate(RunAnswers.citations, call.theme, "citation")

Unkeyed(decisions) == [i \in DOMAIN decisions |-> [decisions[i] EXCEPT !.graph_key = NoneValue]]

\* the key the generator gave at the last place of the combined list (seed,
\* references, citations) that holds the identifier
KeyOfWork(id) ==
    LET all_works == <<RunAnswers.seed>> \o RunAnswers.references \o RunAnswers.citations
        places == {i \in DOMAIN all_works : all_works[i].openalex_id = id}
        final == CHOOSE i \in places : \A j \in places : j <= i
    IN  assign_keys(all_works).trace[final].key

\* C17: in the result of a run every decision produced (references first, then
\* citations) is in exactly one of accepted and rejected, by its verdict; each
\* list keeps the relative order of the decisions; result.decisions is accepted
\* followed by rejected; every decision carries the key assigned to its work.
C17_DecisionsPartitioned ==
    RunReturned =>
        LET accepted == RunResult.accepted
            rejected == RunResult.rejected
            listed == decisions_of(RunResult)
        IN  /\ Unkeyed(accepted) = SelectSeq(Produced, LAMBDA d : d.verdict = "accepted")
            /\ Unkeyed(rejected) = SelectSeq(Produced, LAMBDA d : d.verdict = "rejected")
            /\ Len(accepted) + Len(rejected) = Len(Produced)
            /\ Len(listed) = Len(accepted) + Len(rejected)
            /\ \A i \in DOMAIN accepted : listed[i] = accepted[i]
            /\ \A i \in DOMAIN rejected : listed[Len(accepted) + i] = rejected[i]
            /\ \A i \in DOMAIN listed : listed[i].graph_key = KeyOfWork(listed[i].work.openalex_id)

\* a rejected reference decided before an accepted one, an accepted citation
\* after them, and a key that is not the work's identifier
C17_Witness ==
    /\ RunReturned
    /\ Len(Produced) >= 3
    /\ Produced[1].verdict = "rejected"
    /\ Produced[2].verdict = "accepted"
    /\ Produced[2].relation = "reference"
    /\ Len(RunResult.accepted) >= 2
    /\ RunResult.accepted[Len(RunResult.accepted)].relation = "citation"
    /\ Len(RunResult.rejected) >= 1
    /\ \E i \in DOMAIN RunResult.rejected :
            RunResult.rejected[i].graph_key # RunResult.rejected[i].work.openalex_id

\* C18: in every result of a run, whatever reference and citation lists the
\* service returned (lists holding the seed work included), the graph has a
\* node under its seed_key, with role 'seed', verdict 'seed' and the seed's
\* work id.
C18_SeedNodeKept ==
    RunReturned =>
        LET graph == RunResult.graph
        IN  /\ graph.seed_key \in DOMAIN graph.nodes
            /\ graph.nodes[graph.seed_key].role = "seed"
            /\ graph.nodes[graph.seed_key].verdict = "seed"
            /\ graph.nodes[graph.seed_key].work_id = RunAnswers.seed.openalex_id

ContextRunDone == call.op = "run_with_context" /\ ret.done /\ ~call.answers.raised

\* the first call of the hook raised
HookFailed == call.hook.present /\ call.hook.with_theme # "ok"

\* C22: a failure raised by the agent's set_run_context hook, whatever its
\* kind, does not abort the run: the references and citations are evaluated
\* and a result is returned.
C22_HookFailureTolerated ==
    (ContextRunDone /\ HookFailed) =>
        /\ ~ret.value.raised
        /\ ret.value = run(call.answers, call.theme)

-----------------------------------------------------------------------------
(* Claims about the related-paper harvester                                 *)

HarvestReturned == call.op = "harvest" /\ ret.done
Harvested == ret.value

\* the identifiers the caller has already seen
SeenIds == IF call.seen_ids = NoneValue THEN {} ELSE Range(call.seen_ids[1])

NonEmptyId(record) == record.paper_id # NoneValue /\ record.paper_id # Some("")

\* C19: harvest never returns a record whose non-empty paper_id is in
\* seen_ids, and never returns two records with the same non-empty paper_id,
\* over all harvested papers and both relations.
C19_NoSeenNoDuplicate ==
    HarvestReturned =>
        /\ \A i \in DOMAIN Harvested :
                NonEmptyId(Harvested[i]) => Harvested[i].paper_id \notin SeenIds
        /\ \A i, j \in DOMAIN Harvested :
                (i # j /\ NonEmptyId(Harvested[i])) => Harvested[i].paper_id # Harvested[j].paper_id

\* two papers harvested over both relations: the fetchers offered one
\* identifier several times and a seen one, and each came back at most once
C19_Witness ==
    /\ HarvestReturned
    /\ call.config.include_references /\ call.config.include_citations
    /\ call.papers = <<PaperRecord("semantic_scholar", Some("p1"), "Paper 1"),
                       PaperRecord("semantic_scholar", Some("p2"), "Paper 2")>>
    /\ call.seen_ids = Some(<<Some(""), Some("r2")>>)
    /\ call.client["references"][Some("p1")] = Fetched(<<RelatedA, RelatedB>>)
    /\ call.client["citations"][Some("p1")] = Fetched(<<RelatedB, RelatedC>>)
    /\ call.client["references"][Some("p2")] = Fetched(<<RelatedN, RelatedC, RelatedN>>)
    /\ Harvested = <<RelatedA, RelatedN, RelatedN>>

-----------------------------------------------------------------------------
(* Claims about the run database                                            *)

StoredRuns == db_read(dbFile).runs
StoredIds == [i \in DOMAIN StoredRuns |-> StoredRuns[i].id]
ReturnedIds == [i \in DOMAIN dlast.out |-> dlast.out[i][1]]

\* C20: log_run returns 1 on a fresh database; over any sequence of log_run
\* calls on one file the returned ids strictly increase, so no two stored runs
\* share an id; last_runs(limit) returns at most limit runs, in descending id
\* order, the most recent ones first.
C20_RunIdsIncrease ==
    /\ (dlast.op = "log_run" /\ dlast.pre.runs = <<>>) => dlast.out = 1
    /\ \A i, j \in DOMAIN dlast.issued : i < j => dlast.issued[i] < dlast.issued[j]
    /\ \A i, j \in DOMAIN StoredIds : i # j => StoredIds[i] # StoredIds[j]
    /\ dlast.op = "last_runs" =>
            /\ Len(dlast.out) <= dlast.limit
            /\ Len(dlast.out) = Len(StoredRuns) \/ Len(dlast.out) = dlast.limit
            /\ \A i, j \in DOMAIN ReturnedIds : i < j => ReturnedIds[i] > ReturnedIds[j]
            /\ \A i \in DOMAIN dlast.out : \E r \in DOMAIN StoredRuns : dlast.out[i] = run_tuple(StoredRuns[r])
            /\ \A r \in DOMAIN StoredRuns :
                    StoredIds[r] \in Range(ReturnedIds)
                        \/ \A i \in DOMAIN ReturnedIds : StoredIds[r] < ReturnedIds[i]

\* three runs logged with the ids 1, 2, 3 and the last two of them asked for
C20_Witness ==
    /\ dlast.op = "last_runs"
    /\ dlast.limit = 2
    /\ dlast.issued = <<1, 2, 3>>
    /\ StoredIds = <<1, 2, 3>>
    /\ ReturnedIds = <<3, 2>>

-----------------------------------------------------------------------------
(* Claims about the Semantic Scholar client                                 *)

SearchReturned == call.op = "search" /\ ret.done /\ ~ret.value.raised

\* the items accumulated before the k-th request
ItemsBefore(k) ==
    LET Sum[i \in 0..Len(proc.pages)] == IF i = 0 THEN 0 ELSE Sum[i - 1] + Len(proc.pages[i].data)
    IN  Sum[Minimum(k - 1, Len(proc.pages))]

SearchSafe ==
    /\ SearchReturned => Len(ret.value.value) <= proc.limit
    /\ \A k \in DOMAIN proc.requests :
        /\ k = 1 => proc.requests[k].token = NoneValue
        /\ k > 1 =>
            /\ ItemsBefore(k) < proc.limit
            /\ proc.pages[k - 1].data # <<>>
            /\ proc.pages[k - 1].token \notin {NoneValue, Some("")}
            /\ proc.requests[k].token = proc.pages[k - 1].token

\* C21: the unauthenticated search terminates and returns at most limit
\* papers; it requests another page only while fewer than limit items are
\* accumulated and the previous page was non-empty and carried a token; the
\* first request carries no token, each later one the previous page's token.
C21_SearchTerminates == []SearchSafe /\ <>(ret.done)

\* three pages asked for: the second request carried the first page's token,
\* the third the second's, and the result was cut to the limit
C21_Witness ==
    /\ SearchReturned
    /\ Len(proc.requests) = 3
    /\ proc.requests[2].token = Some("t1")
    /\ proc.requests[3].token = Some("t2")
    /\ Len(proc.accumulated) > proc.limit
    /\ Len(ret.value.value) = proc.limit

-----------------------------------------------------------------------------
(* Claims about the commit discipline of the cache (SpecCache)              *)

LastReturned == last.op \in {"get_seed", "get_references", "get_citations"} /\ ~last.out.raised

\* the works the last service call stored: what the client answered
LastStored ==
    IF last.client # "answered" THEN <<>>
    ELSE IF last.op = "get_seed" THEN <<last.out.value>> ELSE last.out.value

\* the file holds what the last service call stored
FileHoldsStored ==
    last.client = "answered" =>
        /\ file.exists
        /\ \A i \in DOMAIN LastStored :
              /\ LastStored[i].openalex_id \in DOMAIN file.doc.works
              /\ file.doc.works[LastStored[i].openalex_id] = to_dict(LastStored[i])
        /\ last.op # "get_seed" =>
              LET relation == IF last.op = "get_references" THEN "references" ELSE "citations"
              IN  /\ last.arg \in DOMAIN file.doc[relation]
                  /\ file.doc[relation][last.arg] =
                        [i \in DOMAIN LastStored |-> LastStored[i].openalex_id]

NothingUncommitted ==
    LastReturned =>
        /\ dirty = FALSE
        /\ FileHoldsStored
        /\ data.loaded /\ (file.exists => file.doc = data.doc)

\* a commit of a cache without change leaves the file as it is
CommitWritesOnlyChanges == (last'.op = "commit" /\ ~dirty) => file' = file

\* C24: whenever get_seed, get_references or get_citations returns normally
\* the cache has no uncommitted change (the dirty flag is false and the file
\* holds every work and id-list the operation stored); commit writes the file
\* only when something changed since the last commit.
C24_CommittedOnReturn == []NothingUncommitted /\ [][CommitWritesOnlyChanges]_vars

\* get_references refetched two works over a cache file that named them
\* without holding them, and the file now holds the works and the list
C24_Witness ==
    /\ LastReturned
    /\ last.op = "get_references"
    /\ last.client = "answered"
    /\ Len(last.out.value) = 2
    /\ last.pre.works = EmptyDict
    /\ last.pre.references # EmptyDict
    /\ file.doc # last.pre
    /\ DOMAIN file.doc.works = {last.out.value[1].openalex_id, last.out.value[2].openalex_id}
    /\ dirty = FALSE

-----------------------------------------------------------------------------
(* Claims about run files (SpecRepo, SpecSaving)                            *)

ManifestRuns == IF manifest.exists THEN manifest.doc.runs ELSE EmptyDict

\* the file name behind a manifest entry: its run_file without "runs/"
RunFileOf(entry) == SubSeq(entry.run_file, Len(RunsPrefix) + 1, Len(entry.run_file))

\* C28: within one project distinct seed ids are persisted to distinct run
\* files: the manifest entries of two different seeds name different
\* run_file paths and each file holds the result of its own seed.
C28_DistinctRunFiles ==
    \A s1, s2 \in DOMAIN ManifestRuns :
        /\ s1 # s2 => ManifestRuns[s1].run_file # ManifestRuns[s2].run_file
        /\ RunFileOf(ManifestRuns[s1]) \in DOMAIN runFiles
              => runFiles[RunFileOf(ManifestRuns[s1])].seed["openalex_id"] = s1


LoadedRuns(m) == IF m.exists THEN DOMAIN m.doc.runs ELSE {}

\* the manifest a save_run writes holds the entries it loaded and its own
WritesWhatItLoaded ==
    rlast.op = "write_manifest"
        => DOMAIN ManifestRuns = LoadedRuns(rlast.loaded) \cup {rlast.result.seed.openalex_id}

\* the file a cache instance commits holds the works that instance held
CommitsWhatItHolds ==
    (rlast.op = "get_seed" /\ rlast.calls = 1)
        => /\ file.exists
           /\ DOMAIN file.doc.works = DOMAIN rlast.pre.works \cup {rlast.arg}

\* C25: nothing locks or merges: a save_run writes the manifest it loaded
\* plus its own entry, and a cache instance writes the document it holds, so
\* what another invocation or instance wrote in between is lost; two
\* save_run invocations for different seeds can both finish and leave a
\* manifest without one seed's entry.
C25_LostUpdate == WritesWhatItLoaded /\ CommitsWhatItHolds

C25_Witness ==
    /\ proc.pc = "saving"
    /\ \E p, q \in Savers :
          /\ p # q /\ Saving(p).at = 0 /\ Saving(q).at = 0
          /\ \E s \in proc.finished[p], t \in proc.finished[q] :
                /\ s # t
                /\ sanitize_filename(s) # sanitize_filename(t)
                /\ s \notin DOMAIN ManifestRuns
                /\ t \in DOMAIN ManifestRuns

\* two instances on one path: a work one of them committed is gone from the file
InstanceEntryLost ==
    /\ proc.pc = "caching"
    /\ \E i \in Instances :
          /\ proc.caches[i].loaded
          /\ file.exists
          /\ \E w \in DOMAIN proc.caches[i].doc.works : w \notin DOMAIN file.doc.works

\* C29: the run file is written before the manifest, so whatever the
\* interleaving and wherever a save_run crashes, every manifest entry names
\* a run file that exists.
C29_EntriesHaveFiles ==
    \A s \in DOMAIN ManifestRuns : RunFileOf(ManifestRuns[s]) \in DOMAIN runFiles

\* a crash between the two writes left a run file no manifest entry names
C29_Witness ==
    /\ rlast.op = "crash"
    /\ rlast.before = "write_manifest"
    /\ run_filename(rlast.result) \in DOMAIN runFiles
    /\ \A s \in DOMAIN ManifestRuns : RunFileOf(ManifestRuns[s]) # run_filename(rlast.result)
    /\ ManifestRuns # EmptyDict


-----------------------------------------------------------------------------
(* Claims about repeated seed lookups (SpecSeeds)                           *)

\* C27: once get_seed(id) has returned, every later get_seed(id) on the same
\* cache returns that work and makes no client call, whatever form of
\* identifier id is.
C27_SeedFetchedOnce ==
    (last.op = "get_seed" /\ last.before # NoneValue)
        => /\ last.calls = 0
           /\ last.out = Returned(last.before[1])


-----------------------------------------------------------------------------
(* Claims about key uniqueness (SpecKeys)                                   *)

DistinctIdentifiers(works) ==
    \A i, j \in DOMAIN works : i # j => works[i].openalex_id # works[j].openalex_id

\* C26: works with pairwise distinct identifiers get pairwise distinct keys.
C26_DistinctKeys ==
    (kOut.done /\ DistinctIdentifiers(kInput)) =>
        \A id1, id2 \in DOMAIN kOut.value.keys :
            id1 # id2 => kOut.value.keys[id1] # kOut.value.keys[id2]


-----------------------------------------------------------------------------
(* Claims about the Semantic Scholar orchestrator (SpecOrchestrate)         *)

\* the iteration recorded in entry gave no reason to stop
MayContinue(entry) ==
    /\ ~entry.raised
    /\ \A i \in DOMAIN entry.results : Lower(entry.results[i].label) # Lower(StrongLabel)
    /\ \E i \in DOMAIN entry.results : TRUE
    /\ entry.refined # NoneValue
    /\ Strip(entry.refined[1], Whitespace) # <<>>
    /\ Lower(Strip(entry.refined[1], Whitespace)) # Lower(entry.query)

OrchestratorSafe ==
    /\ proc.runs <= Maximum(0, call.max_iterations)
    /\ ret.done => proc.pc = "done"

\* a query-agent run that is not the first follows an iteration that gave no
\* reason to stop
RunsOnlyToContinue ==
    (proc'.runs > proc.runs /\ proc.runs > 0) => MayContinue(proc.final[1])

\* C30: run performs at most max_iterations query-agent runs and ends; it
\* starts another iteration only after one that found no strong
\* classification, had feedback and got a refined query that is not empty
\* and differs, letter case aside, from the query it ran with.
C30_BoundedIterations == []OrchestratorSafe /\ [][RunsOnlyToContinue]_vars /\ <>(ret.done)

\* a run that stopped short of max_iterations on a refined query that differs
\* from the query only by letter case
C30_Witness ==
    /\ ret.done /\ ~ret.value.raised
    /\ proc.runs = 2
    /\ proc.runs < call.max_iterations
    /\ proc.final[1].refined # NoneValue
    /\ Strip(proc.final[1].refined[1], Whitespace) # proc.final[1].query
    /\ Lower(Strip(proc.final[1].refined[1], Whitespace)) = Lower(proc.final[1].query)

====
